---- MODULE Spec2Model ----
(***************************************************************************)
(* Cornell Footnote plugin (src/main.ts): the Source <-> Cue footnote      *)
(* synchronisation.  A text is a sequence of characters; the fixed code    *)
(* block fence and the back-link are single tokens of that sequence (no    *)
(* pattern of the program looks inside them).  Positions are 1-based here, *)
(* 0-based in the source.                                                  *)
(***************************************************************************)
EXTENDS Integers, Sequences, FiniteSets, TLC

(***************************************************************************)
(* Characters and string helpers                                           *)
(***************************************************************************)
NL == "\n"
TAB == "\t"
SP == " "

\* the opening fence with INTERNAL_SETTINGS.codeBlockProcessorId behind it, and the
\* closing fence, as tokens (three backquotes each in the source)
CB == "<fence>cornell-footnote-links"
FENCE == "<fence>"

\* \s of the patterns, over the characters of the model
IsWs(c) == c \in {SP, NL, TAB}

Min(S) == CHOOSE a \in S : \A b \in S : a <= b

\* first position >= i that holds no whitespace (Len(t)+1 when there is none)
RECURSIVE WsRunEnd(_, _)
WsRunEnd(t, i) ==
  IF i > Len(t) THEN Len(t) + 1
  ELSE IF ~IsWs(t[i]) THEN i ELSE WsRunEnd(t, i + 1)

\* first position >= i that holds a newline (Len(t)+1 when there is none): the end of .*
RECURSIVE LineEnd(_, _)
LineEnd(t, i) ==
  IF i > Len(t) THEN Len(t) + 1
  ELSE IF t[i] = NL THEN i ELSE LineEnd(t, i + 1)

\* ^ under the m flag
IsLineStart(t, i) == i = 1 \/ (i - 1 <= Len(t) /\ t[i - 1] = NL)

\* t[i..j], empty when j < i
Slice(t, i, j) == IF j < i THEN <<>> ELSE SubSeq(t, i, j)

\* String.prototype.trimEnd / trim
RECURSIVE TrimEnd(_)
TrimEnd(t) ==
  IF t = <<>> THEN <<>>
  ELSE IF IsWs(t[Len(t)]) THEN TrimEnd(SubSeq(t, 1, Len(t) - 1)) ELSE t

Trim(t) ==
  LET e == TrimEnd(t)
  IN IF e = <<>> THEN <<>> ELSE SubSeq(e, WsRunEnd(e, 1), Len(e))

\* String.prototype.includes
Includes(t, u) ==
  \E i \in 1..(Len(t) - Len(u) + 1) : SubSeq(t, i, i + Len(u) - 1) = u

\* four spaces at i..i+3
FourSpaces(t, i) == i + 3 <= Len(t) /\ \A k \in i..(i + 3) : t[k] = SP

\* s.replace(/\n{3,}/g, '\n\n')
RECURSIVE CollapseFrom(_, _)
CollapseFrom(t, i) ==
  IF i > Len(t) THEN <<>>
  ELSE IF t[i] = NL
       THEN LET S == {j \in i..Len(t) : t[j] # NL}
                e == IF S = {} THEN Len(t) + 1 ELSE Min(S)
            IN (IF e - i >= 3 THEN <<NL, NL>> ELSE SubSeq(t, i, e - 1))
               \o CollapseFrom(t, e)
       ELSE <<t[i]>> \o CollapseFrom(t, i + 1)

\* the text as it is, runs of line breaks kept
CollapseNothing(t) == t

CollapseNewlines(t) == CollapseFrom(t, 1)

\* s.replace(/\n(?: {4}|\t|\s{2,})/g, '\n'): the un-indenting of continuation lines
RECURSIVE UnindentFrom(_, _)
UnindentFrom(t, i) ==
  IF i > Len(t) THEN <<>>
  ELSE IF t[i] # NL THEN <<t[i]>> \o UnindentFrom(t, i + 1)
  ELSE IF FourSpaces(t, i + 1) THEN <<NL>> \o UnindentFrom(t, i + 5)
  ELSE IF i + 1 <= Len(t) /\ t[i + 1] = TAB THEN <<NL>> \o UnindentFrom(t, i + 2)
  ELSE IF WsRunEnd(t, i + 1) - (i + 1) >= 2 THEN <<NL>> \o UnindentFrom(t, WsRunEnd(t, i + 1))
  ELSE <<NL>> \o UnindentFrom(t, i + 1)

Unindent(t) == UnindentFrom(t, 1)

\* ---------------------------------------------------------------------------
\* The definition pattern defRegex (flags gm): at a line start, whitespace, "[^",
\* one or more characters other than "]", "]:", whitespace, the rest of the line,
\* then continuation lines: a newline followed by four spaces, or a tab, or two
\* or more whitespace characters, and the rest of that line.
\* ---------------------------------------------------------------------------
\* where the continuation lines that follow the line end n stop
RECURSIVE ContEnd(_, _)
ContEnd(t, n) ==
  IF n > Len(t) \/ t[n] # NL THEN n
  ELSE IF FourSpaces(t, n + 1) THEN ContEnd(t, LineEnd(t, n + 5))
  ELSE IF n + 1 <= Len(t) /\ t[n + 1] = TAB THEN ContEnd(t, LineEnd(t, n + 2))
  ELSE IF WsRunEnd(t, n + 1) - (n + 1) >= 2
       THEN ContEnd(t, LineEnd(t, WsRunEnd(t, n + 1)))
  ELSE n

\* position of the first "]" at or after i (Len(t)+1 when there is none)
RECURSIVE CloseAt(_, _)
CloseAt(t, i) ==
  IF i > Len(t) THEN Len(t) + 1
  ELSE IF t[i] = "]" THEN i ELSE CloseAt(t, i + 1)

\* does the definition pattern match with its first character at i
DefMatchesAt(t, i) ==
  LET j == WsRunEnd(t, i)
      k == CloseAt(t, j + 2)
  IN /\ IsLineStart(t, i)
     /\ j + 1 <= Len(t) /\ t[j] = "[" /\ t[j + 1] = "^"
     /\ k >= j + 3 /\ k + 1 <= Len(t) /\ t[k + 1] = ":"

\* the match at i: start and end are the half-open span [start, end) of match[0]
DefMatchAt(t, i) ==
  LET j == WsRunEnd(t, i)
      k == CloseAt(t, j + 2)
      m == WsRunEnd(t, k + 2)
      e == ContEnd(t, LineEnd(t, m))
  IN [ref |-> Trim(Slice(t, j + 2, k - 1)),
      definition |-> Trim(Unindent(Slice(t, m, e - 1))),
      start |-> i, end |-> e]

\* the exec loop: every match from position `from` on, in document order
RECURSIVE DefMatchesFrom(_, _)
DefMatchesFrom(t, from) ==
  IF from > Len(t) THEN <<>>
  ELSE IF DefMatchesAt(t, from)
       THEN LET d == DefMatchAt(t, from)
            IN <<d>> \o DefMatchesFrom(t, d.end)
       ELSE DefMatchesFrom(t, from + 1)

\* ---------------------------------------------------------------------------
\* The reference pattern refRegex (flag g): "[^", one or more characters other
\* than "]", "]", not followed by ":".
\* ---------------------------------------------------------------------------
RefMatchesAt(t, i) ==
  LET k == CloseAt(t, i + 2)
  IN /\ i + 1 <= Len(t) /\ t[i] = "[" /\ t[i + 1] = "^"
     /\ k >= i + 3 /\ k <= Len(t)
     /\ ~(k + 1 <= Len(t) /\ t[k + 1] = ":")

RECURSIVE RefMatchesFrom(_, _)
RefMatchesFrom(t, from) ==
  IF from > Len(t) THEN <<>>
  ELSE IF RefMatchesAt(t, from)
       THEN LET k == CloseAt(t, from + 2)
            IN <<[ref |-> Trim(Slice(t, from + 2, k - 1)), start |-> from, end |-> k + 1]>>
               \o RefMatchesFrom(t, k + 1)
       ELSE RefMatchesFrom(t, from + 1)

\* parseSourceContent: definitions and references, each in document order
parseSourceContent(content) ==
  [definitions |-> DefMatchesFrom(content, 1),
   references |-> RefMatchesFrom(content, 1)]

(***************************************************************************)
(* Map<string, string>: a sequence of <<ref, definition>> entries in        *)
(* insertion order, keys unique                                             *)
(***************************************************************************)
MapHas(m, k) == \E i \in 1..Len(m) : m[i][1] = k

MapGet(m, k) == m[CHOOSE i \in 1..Len(m) : m[i][1] = k][2]

\* Map.prototype.set: an existing key keeps its place
MapSet(m, k, v) ==
  IF MapHas(m, k)
  THEN [i \in 1..Len(m) |-> IF m[i][1] = k THEN <<k, v>> ELSE m[i]]
  ELSE Append(m, <<k, v>>)

MapDelete(m, k) == SelectSeq(m, LAMBDA e : e[1] # k)

MapKeys(m) == {m[i][1] : i \in 1..Len(m)}

\* a Map built so that the first definition of a ref wins
RECURSIVE MapOfDefsFirstWins(_)
MapOfDefsFirstWins(defs) ==
  IF defs = <<>> THEN <<>>
  ELSE LET d == defs[Len(defs)]
           rest == MapOfDefsFirstWins(SubSeq(defs, 1, Len(defs) - 1))
       IN IF MapHas(rest, d.ref) THEN rest ELSE MapSet(rest, d.ref, d.definition)

\* new Map(defs.map(def => [def.ref, def.definition]))
RECURSIVE MapOfDefs(_)
MapOfDefs(defs) ==
  IF defs = <<>> THEN <<>>
  ELSE LET d == defs[Len(defs)]
       IN MapSet(MapOfDefs(SubSeq(defs, 1, Len(defs) - 1)), d.ref, d.definition)

\* parseFootnotesSimple: the same pattern, straight into a Map (match[2] is never
\* empty, so its test never skips an entry)
parseFootnotesSimple(content) == MapOfDefs(DefMatchesFrom(content, 1))

\* ---------------------------------------------------------------------------
\* a.localeCompare(b, undefined, {numeric: true, sensitivity: 'base'}) over the
\* characters of the model: digit runs compare by value, other characters by
\* collation rank (whitespace < punctuation < symbols < digits < letters, upper
\* and lower case alike), a proper prefix sorts first.
\* ---------------------------------------------------------------------------
Digits == <<"0", "1", "2", "3", "4", "5", "6", "7", "8", "9">>

IsDigit(c) == \E d \in 1..Len(Digits) : Digits[d] = c

DigitVal(c) == (CHOOSE d \in 1..Len(Digits) : Digits[d] = c) - 1

CollationOrder ==
  <<{TAB}, {NL}, {SP}, {":"}, {"["}, {"^"},
    {"a", "A"}, {"b", "B"}, {"c", "C"}, {"p", "P"}, {"q", "Q"}, {"t", "T"},
    {"u", "U"}, {"x", "X"}, {"y", "Y"}, {"z", "Z"}>>

Rank(c) ==
  IF \E r \in 1..Len(CollationOrder) : c \in CollationOrder[r]
  THEN CHOOSE r \in 1..Len(CollationOrder) : c \in CollationOrder[r]
  ELSE Len(CollationOrder) + 1

\* first position >= i that holds no digit
DigitRunEnd(t, i) ==
  LET S == {j \in i..Len(t) : ~IsDigit(t[j])}
  IN IF S = {} THEN Len(t) + 1 ELSE Min(S)

RECURSIVE NumVal(_)
NumVal(t) == IF t = <<>> THEN 0 ELSE 10 * NumVal(SubSeq(t, 1, Len(t) - 1)) + DigitVal(t[Len(t)])

\* -1, 0 or 1
RECURSIVE CompareFrom(_, _, _, _)
CompareFrom(a, i, b, j) ==
  IF i > Len(a) /\ j > Len(b) THEN 0
  ELSE IF i > Len(a) THEN -1
  ELSE IF j > Len(b) THEN 1
  ELSE IF IsDigit(a[i]) /\ IsDigit(b[j])
       THEN LET ie == DigitRunEnd(a, i)
                je == DigitRunEnd(b, j)
                x == NumVal(SubSeq(a, i, ie - 1))
                y == NumVal(SubSeq(b, j, je - 1))
            IN IF x < y THEN -1 ELSE IF x > y THEN 1 ELSE CompareFrom(a, ie, b, je)
  ELSE IF IsDigit(a[i]) THEN (IF Rank(b[j]) <= Rank("^") THEN 1 ELSE -1)
  ELSE IF IsDigit(b[j]) THEN (IF Rank(a[i]) <= Rank("^") THEN -1 ELSE 1)
  ELSE IF Rank(a[i]) < Rank(b[j]) THEN -1
  ELSE IF Rank(a[i]) > Rank(b[j]) THEN 1
  ELSE CompareFrom(a, i + 1, b, j + 1)

\* a comparison without {numeric: true}: digits compare one by one
RECURSIVE PlainCompareFrom(_, _, _, _)
PlainCompareFrom(a, i, b, j) ==
  IF i > Len(a) /\ j > Len(b) THEN 0
  ELSE IF i > Len(a) THEN -1
  ELSE IF j > Len(b) THEN 1
  ELSE IF IsDigit(a[i]) /\ IsDigit(b[j])
       THEN (IF DigitVal(a[i]) < DigitVal(b[j]) THEN -1
             ELSE IF DigitVal(a[i]) > DigitVal(b[j]) THEN 1
             ELSE PlainCompareFrom(a, i + 1, b, j + 1))
  ELSE IF IsDigit(a[i]) THEN (IF Rank(b[j]) <= Rank("^") THEN 1 ELSE -1)
  ELSE IF IsDigit(b[j]) THEN (IF Rank(a[i]) <= Rank("^") THEN -1 ELSE 1)
  ELSE IF Rank(a[i]) < Rank(b[j]) THEN -1
  ELSE IF Rank(a[i]) > Rank(b[j]) THEN 1
  ELSE PlainCompareFrom(a, i + 1, b, j + 1)

localeCompareNotNumeric(a, b) == PlainCompareFrom(a, 1, b, 1)

localeCompare(a, b) == CompareFrom(a, 1, b, 1)

\* Array.prototype.sort with that comparison on the keys: stable
RECURSIVE InsertSorted(_, _)
InsertSorted(sorted, e) ==
  IF sorted = <<>> THEN <<e>>
  ELSE IF localeCompare(sorted[Len(sorted)][1], e[1]) <= 0 THEN Append(sorted, e)
  ELSE Append(InsertSorted(SubSeq(sorted, 1, Len(sorted) - 1), e), sorted[Len(sorted)])

RECURSIVE SortEntries(_)
SortEntries(m) ==
  IF m = <<>> THEN <<>>
  ELSE InsertSorted(SortEntries(SubSeq(m, 1, Len(m) - 1)), m[Len(m)])

\* sorted entries as "[^ref]: def", joined by a blank line
RECURSIVE JoinEntries(_)
JoinEntries(es) ==
  IF es = <<>> THEN <<>>
  ELSE <<"[", "^">> \o es[1][1] \o <<"]", ":", SP>> \o es[1][2]
       \o (IF Len(es) > 1 THEN <<NL, NL>> \o JoinEntries(Tail(es)) ELSE <<>>)

DefinitionsText(m) == JoinEntries(SortEntries(m))

(***************************************************************************)
(* Content generation                                                      *)
(***************************************************************************)
\* settings.linkToSourceText (the default template), its placeholder a token
linkToSourceText == <<"[[", "{{sourceNote}}", "|Back to Source]]">>

\* linkToSourceText.replace('{{sourceNote}}', basename): the first occurrence only
LinkToSource(basename) ==
  LET S == {i \in 1..Len(linkToSourceText) : linkToSourceText[i] = "{{sourceNote}}"}
  IN IF S = {} THEN linkToSourceText
     ELSE [i \in 1..Len(linkToSourceText) |->
             IF i = Min(S) THEN basename ELSE linkToSourceText[i]]

\* the pattern of firstDefMatch (flag m) at i: whitespace, "[^", one or more
\* characters of the same line, "]:"
FirstDefMatchesAt(t, i) ==
  LET j == WsRunEnd(t, i)
  IN /\ IsLineStart(t, i)
     /\ j + 1 <= Len(t) /\ t[j] = "[" /\ t[j + 1] = "^"
     /\ \E k \in (j + 3)..(LineEnd(t, j + 2) - 1) :
          t[k] = "]" /\ k + 1 <= Len(t) /\ t[k + 1] = ":"

\* the pattern of firstCbMatch (flag m) at i: whitespace, the opening fence
FirstCbMatchesAt(t, i) ==
  /\ IsLineStart(t, i)
  /\ WsRunEnd(t, i) <= Len(t) /\ t[WsRunEnd(t, i)] = CB

\* firstElementIdx (1-based): where the first definition line or code block begins
RECURSIVE FirstElementFrom(_, _)
FirstElementFrom(t, i) ==
  IF i > Len(t) THEN Len(t) + 1
  ELSE IF FirstDefMatchesAt(t, i) \/ FirstCbMatchesAt(t, i) THEN i
  ELSE FirstElementFrom(t, i + 1)

FirstElementIdx(t) == FirstElementFrom(t, 1)

generateCueContent(currentContent, basename, footnotes) ==
  LET link == LinkToSource(basename)
      cut == TrimEnd(Slice(currentContent, 1, FirstElementIdx(currentContent) - 1))
      extractedHeader ==
        IF Includes(cut, link) THEN cut
        ELSE IF cut # <<>> THEN link \o <<NL, NL>> \o cut ELSE link
      finalHeader == IF extractedHeader # <<>> THEN extractedHeader \o <<NL, NL>> ELSE <<>>
      fnsText == IF Len(footnotes) > 0 THEN DefinitionsText(footnotes) ELSE <<>>
      codeBlockSection ==
        IF Len(footnotes) > 0 THEN <<NL, NL, CB, NL, FENCE, NL>> ELSE <<>>
  IN CollapseNewlines(TrimEnd(finalHeader \o fnsText \o codeBlockSection) \o <<NL>>)

\* the text with the spans of defs[1..n] cut out, last span first
RECURSIVE RemoveSpans(_, _, _)
RemoveSpans(t, defs, n) ==
  IF n = 0 THEN t
  ELSE RemoveSpans(Slice(t, 1, defs[n].start - 1) \o Slice(t, defs[n].end, Len(t)),
                   defs, n - 1)

\* does "[^" + one of refs + "]" not followed by ":" start at i; the set of the
\* positions where such a match may end (at most one: no ref holds a "]")
RefToDeleteEnds(t, i, refs) ==
  {e \in (i + 3)..(Len(t) + 1) :
     /\ t[i] = "[" /\ t[i + 1] = "^" /\ t[e - 1] = "]"
     /\ Slice(t, i + 2, e - 2) \in refs
     /\ ~(e <= Len(t) /\ t[e] = ":")}

\* bodyContent.replace(refsToDeleteRegex, '')
RECURSIVE RemoveRefsFrom(_, _, _)
RemoveRefsFrom(t, i, refs) ==
  IF i > Len(t) THEN <<>>
  ELSE LET E == RefToDeleteEnds(t, i, refs)
       IN IF E # {} THEN RemoveRefsFrom(t, Min(E), refs)
          ELSE <<t[i]>> \o RemoveRefsFrom(t, i + 1, refs)

\* step 2 of updateSourceNoteContentRebuild: the definitions Source keeps
\* a rebuild that keeps the definitions only the Source has
RECURSIVE KeepFromSourceAll(_, _)
KeepFromSourceAll(sourceDefs, footnotesFromCue) ==
  IF sourceDefs = <<>> THEN <<>>
  ELSE LET d == sourceDefs[Len(sourceDefs)]
           rest == KeepFromSourceAll(SubSeq(sourceDefs, 1, Len(sourceDefs) - 1),
                                     footnotesFromCue)
       IN MapSet(rest, d.ref, IF MapHas(footnotesFromCue, d.ref)
                              THEN MapGet(footnotesFromCue, d.ref) ELSE d.definition)

RECURSIVE KeepFromSource(_, _)
KeepFromSource(sourceDefs, footnotesFromCue) ==
  IF sourceDefs = <<>> THEN <<>>
  ELSE LET d == sourceDefs[Len(sourceDefs)]
           rest == KeepFromSource(SubSeq(sourceDefs, 1, Len(sourceDefs) - 1), footnotesFromCue)
       IN IF MapHas(footnotesFromCue, d.ref)
          THEN MapSet(rest, d.ref, MapGet(footnotesFromCue, d.ref))
          ELSE rest

RECURSIVE AddFromCue(_, _, _)
AddFromCue(final, sourceDefs, cueEntries) ==
  IF cueEntries = <<>> THEN final
  ELSE AddFromCue(IF \E i \in 1..Len(sourceDefs) : sourceDefs[i].ref = cueEntries[1][1]
                  THEN final
                  ELSE MapSet(final, cueEntries[1][1], cueEntries[1][2]),
                  sourceDefs, Tail(cueEntries))

FinalDefinitions(sourceDefs, footnotesFromCue) ==
  AddFromCue(KeepFromSource(sourceDefs, footnotesFromCue), sourceDefs, footnotesFromCue)

\* refsToDeleteCompletely
RefsToDelete(sourceDefs, footnotesFromCue) ==
  {sourceDefs[i].ref : i \in {k \in 1..Len(sourceDefs) : ~MapHas(footnotesFromCue, sourceDefs[k].ref)}}

\* a rebuild that leaves the definitions where the Source had them when moveToEnd is off
updateSourceNoteContentRebuildInPlace(sourceContent, footnotesFromCue, deleteReferences, moveToEnd) ==
  LET sourceDefs == parseSourceContent(sourceContent).definitions
      finalDefinitions == FinalDefinitions(sourceDefs, footnotesFromCue)
      refsToDeleteCompletely == RefsToDelete(sourceDefs, footnotesFromCue)
      stripped == TrimEnd(RemoveSpans(sourceContent, sourceDefs, Len(sourceDefs)))
      bodyContent ==
        IF deleteReferences /\ refsToDeleteCompletely # {}
        THEN RemoveRefsFrom(stripped, 1, refsToDeleteCompletely)
        ELSE stripped
      finalDefinitionsText ==
        IF Len(finalDefinitions) > 0 THEN DefinitionsText(finalDefinitions) ELSE <<>>
      joined ==
        IF finalDefinitionsText # <<>>
        THEN (IF moveToEnd
              THEN bodyContent \o <<NL, NL>> \o finalDefinitionsText
              ELSE finalDefinitionsText \o <<NL, NL>> \o bodyContent)
        ELSE bodyContent
  IN CollapseNewlines(TrimEnd(joined) \o <<NL>>)

updateSourceNoteContentRebuild(sourceContent, footnotesFromCue, deleteReferences, moveToEnd) ==
  LET sourceDefs == parseSourceContent(sourceContent).definitions
      finalDefinitions == FinalDefinitions(sourceDefs, footnotesFromCue)
      refsToDeleteCompletely == RefsToDelete(sourceDefs, footnotesFromCue)
      stripped == TrimEnd(RemoveSpans(sourceContent, sourceDefs, Len(sourceDefs)))
      bodyContent ==
        IF deleteReferences /\ refsToDeleteCompletely # {}
        THEN RemoveRefsFrom(stripped, 1, refsToDeleteCompletely)
        ELSE stripped
      finalDefinitionsText ==
        IF Len(finalDefinitions) > 0 THEN DefinitionsText(finalDefinitions) ELSE <<>>
      joined ==
        IF finalDefinitionsText # <<>>
        THEN (IF moveToEnd
              THEN bodyContent \o <<NL, NL>> \o finalDefinitionsText
              ELSE bodyContent \o <<NL, NL>> \o finalDefinitionsText)
        ELSE bodyContent
  IN CollapseNewlines(TrimEnd(joined) \o <<NL>>)

\* the prune step if it deleted nothing
PruneNothing(m, presentSourceRefKeys) == m

\* steps 3 of syncSourceToCue: the definitions the Cue is rendered from
RECURSIVE PruneUnreferenced(_, _)
PruneUnreferenced(m, presentSourceRefKeys) ==
  IF m = <<>> THEN <<>>
  ELSE (IF m[1][1] \in presentSourceRefKeys THEN <<m[1]>> ELSE <<>>)
       \o PruneUnreferenced(Tail(m), presentSourceRefKeys)

\* a forward pass that prunes whatever the setting says
FinalCueFootnotesAlwaysPruned(sourceContent, deleteDefinitionsOnReferenceDelete) ==
  LET parsed == parseSourceContent(sourceContent)
  IN PruneUnreferenced(MapOfDefs(parsed.definitions),
                       {parsed.references[i].ref : i \in 1..Len(parsed.references)})

FinalCueFootnotes(sourceContent, deleteDefinitionsOnReferenceDelete) ==
  LET parsed == parseSourceContent(sourceContent)
      sourceDefinitionsMap == MapOfDefs(parsed.definitions)
      presentSourceRefKeys == {parsed.references[i].ref : i \in 1..Len(parsed.references)}
  IN IF deleteDefinitionsOnReferenceDelete
     THEN PruneUnreferenced(sourceDefinitionsMap, presentSourceRefKeys)
     ELSE sourceDefinitionsMap

(***************************************************************************)
(* State                                                                   *)
(***************************************************************************)
VARIABLES
  vault,        \* app.vault: path -> text of the note, or NoFile
  settings,     \* this.settings
  isSyncing,    \* this.isSyncing
  noteInfoMap,  \* this.noteInfoMap: a Map from the Source path to its CornellNoteInfo
  savedMap,     \* the noteInfoMap of the last saveData that succeeded
  pass,         \* the calls of syncSourceToCue / syncCueToSource under way
  debS2C,       \* debouncedSyncSourceToCue: its timer and pending argument
  debC2S,       \* debouncedSyncCueToSource
  now,          \* Date.now()
  budget,       \* what the environment may still do (edits, failures, passes)
  skipped,      \* history: a sync request was refused by the isSyncing guard
  ended,        \* history: how the pass that returned last left its body
  tSource,      \* sequential passes: the text of the Source note
  tCue,         \* sequential passes: the text of its Cue note
  tSettings,    \* sequential passes: this.settings
  tLast,        \* sequential passes: what the last pass did and what it started from
  tSteps,       \* sequential passes: passes run so far
  clock,        \* timed debounce: milliseconds since the plugin was loaded
  fired,        \* timed debounce, history: the debounced call made last
  plugin        \* the plugin instance: loaded or unloaded, and what it ran since

svars == <<tSource, tCue, tSettings, tLast, tSteps>>

dvars == <<clock, fired, plugin>>

tvars == <<svars, dvars>>

cvars == <<vault, settings, isSyncing, noteInfoMap, savedMap, pass, debS2C, debC2S,
           now, budget, skipped, ended>>

vars == <<vault, settings, isSyncing, noteInfoMap, savedMap, pass, debS2C, debC2S,
          now, budget, skipped, ended, tSource, tCue, tSettings, tLast, tSteps,
          clock, fired, plugin>>

(***************************************************************************)
(* Bounds and the texts the notes start from                               *)
(***************************************************************************)
MaxSourcePieces == 3
MaxCuePieces == 2
MaxSteps == 2
MaxPasses == 2     \* calls of the sync functions under way at once
RaceStarts == 3    \* passes started in a behaviour of requests only
EditStarts == 1    \* passes started in a behaviour with edits
MaxEdits == 2      \* edits the user saves
FaultStarts == 2   \* passes started in a behaviour with failures, deletions, creations
MaxFailures == 1   \* awaited calls that throw
MaxDeletes == 1    \* notes the user deletes
MaxCreates == 1    \* notes the user creates
TimedStarts == 2   \* passes started in a behaviour with a clock
TimedEvents == 3   \* edits the user saves in a behaviour with a clock
TickMs == 500      \* the step of the clock
MaxClock == 3000   \* the clock stops here
MaxEdgeSourcePieces == 2
MaxEdgeCuePieces == 2
MaxSortSourcePieces == 3
MaxSortCuePieces == 2
MaxFrameSourcePieces == 3
MaxFrameCuePieces == 2
MaxFlagSourcePieces == 2
MaxFlagCuePieces == 2
BurstStarts == 2    \* passes started in a behaviour under fair scheduling
BurstEvents == 2    \* modify events of the user there
UnloadStarts == 2   \* passes started in a behaviour with an unload
UnloadEvents == 2   \* modify events of the user there
RoleStarts == 2     \* passes started in a behaviour in the vault with a Summary note
RoleEvents == 2     \* modify events of the user there
BatchStarts == 1    \* passes started by the user or a timer while the batch sync runs
BatchEvents == 1    \* modify events of the user while the batch sync runs
MaxRescans == 2     \* restarts of the application in a behaviour
RescanStarts == 2   \* passes started in a behaviour with restarts
RescanDeletes == 1  \* notes deleted in a behaviour with restarts
RescanCreates == 2  \* notes created in a behaviour with restarts
LazyStarts == 2     \* passes started in a behaviour in the vault with new notes
LazyCreates == 2    \* notes created there
ShadowStarts == 3   \* passes started in a behaviour where a Cue note precedes its Source
ShadowCreates == 2  \* notes created there
ResolveStarts == 2  \* passes started in a behaviour in the vault with folders
ResolveCreates == 2 \* Cue notes created there

Def(ref, body) == <<"[", "^">> \o ref \o <<"]", ":">> \o body

SourcePieces ==
  { <<"t", "[", "^", "a", "]", "[", "^", "b", "]", NL>>,
    Def(<<"a">>, <<SP, "x", NL>>),
    Def(<<"b">>, <<SP, "y", NL>>),
    Def(<<"a">>, <<SP, "z", NL>>),
    Def(<<"a", NL, "b">>, <<SP, "x", NL>>),
    Def(<<"b">>, <<NL>>),
    <<SP, SP, SP, SP, "y", NL>> }

CuePieces ==
  { LinkToSource("A") \o <<NL, NL>>,
    Def(<<"a">>, <<SP, "x", NL>>),
    Def(<<"b">>, <<SP, "w", NL>>),
    Def(<<"c">>, <<SP, "v", NL>>),
    <<SP, SP, "y", NL>> }

\* the concatenations of at most n pieces
RECURSIVE TextsOf(_, _)
TextsOf(pieces, n) ==
  IF n = 0 THEN {<<>>}
  ELSE LET shorter == TextsOf(pieces, n - 1)
       IN shorter \cup {t \o p : t \in shorter, p \in pieces}

SourceTexts == TextsOf(SourcePieces, MaxSourcePieces)
CueTexts == TextsOf(CuePieces, MaxCuePieces)

\* the settings a load can leave (loadSettingsAndNoteInfo keeps any saved booleans)
SettingsChoices ==
  [deleteReferencesOnDefinitionDelete : BOOLEAN,
   deleteDefinitionsOnReferenceDelete : BOOLEAN,
   moveFootnotesToEnd : {TRUE}]

NoMap == <<>>

(***************************************************************************)
(* Paths, notes and the relationship table                                 *)
(***************************************************************************)
\* A path is <<folders, stem, suffix>>: the note folders/stem+suffix+".md".
\* Only markdown notes are modelled, and no stem ends with one of the suffixes.
cueNoteSuffix == "-cue"
summaryNoteSuffix == "-summary"
Null == <<>>

Folder(path) == path[1]
Stem(path) == path[2]
Suffix(path) == path[3]

isCueNote(filePath) == filePath # Null /\ Suffix(filePath) = cueNoteSuffix

isSummaryNote(filePath) == filePath # Null /\ Suffix(filePath) = summaryNoteSuffix

getCueNotePath(sourceFile) == <<Folder(sourceFile), Stem(sourceFile), cueNoteSuffix>>

getSummaryNotePath(sourceFile) == <<Folder(sourceFile), Stem(sourceFile), summaryNoteSuffix>>

\* vault.getAbstractFileByPath(path) instanceof TFile
Exists(v, path) == path \in DOMAIN v

NewNoteInfo(v, sourceFile) ==
  [sourcePath |-> sourceFile,
   cuePath |-> IF Exists(v, getCueNotePath(sourceFile))
               THEN getCueNotePath(sourceFile) ELSE Null,
   summaryPath |-> IF Exists(v, getSummaryNotePath(sourceFile))
                   THEN getSummaryNotePath(sourceFile) ELSE Null,
   lastSyncSourceToCue |-> 0,
   lastSyncCueToSource |-> 0]

\* the table after getOrCreateNoteInfo(sourceNoteFile); the info is MapGet of it
getOrCreateNoteInfo(map, v, sourceNoteFile) ==
  IF MapHas(map, sourceNoteFile) THEN map
  ELSE MapSet(map, sourceNoteFile, NewNoteInfo(v, sourceNoteFile))

\* the candidates tried from the root upwards
PotentialPathsRootFirst(derivedPath) ==
  LET f == Folder(derivedPath)
      same == <<f, Stem(derivedPath), "">>
      parent == <<SubSeq(f, 1, Len(f) - 1), Stem(derivedPath), "">>
      root == <<<<>>, Stem(derivedPath), "">>
  IN IF f = <<>> THEN <<same>>
     ELSE IF parent = root THEN <<root, same>>
     ELSE <<root, parent, same>>

\* the candidate Source paths of the fallback: same folder, parent folder, root
PotentialPaths(derivedPath) ==
  LET f == Folder(derivedPath)
      same == <<f, Stem(derivedPath), "">>
      parent == <<SubSeq(f, 1, Len(f) - 1), Stem(derivedPath), "">>
      root == <<<<>>, Stem(derivedPath), "">>
  IN IF f = <<>> THEN <<same>>
     ELSE IF parent = root THEN <<same, root>>
     ELSE <<same, parent, root>>

\* getSourceNoteFileFromDerived(derivedPath): the Source file found (or Null),
\* the table after the call, and whether the call started a saveData
getSourceNoteFileFromDerived(map, v, derivedPath) ==
  LET hits == {i \in 1..Len(map) :
                 /\ \/ map[i][2].cuePath = derivedPath
                    \/ map[i][2].summaryPath = derivedPath
                 /\ Exists(v, map[i][2].sourcePath)}
      paths == PotentialPaths(derivedPath)
      found == {i \in 1..Len(paths) : Exists(v, paths[i])}
  IN IF hits # {}
     THEN [file |-> map[Min(hits)][2].sourcePath, map |-> map, saved |-> FALSE]
     ELSE IF ~(isCueNote(derivedPath) \/ isSummaryNote(derivedPath)) \/ found = {}
     THEN [file |-> Null, map |-> map, saved |-> FALSE]
     ELSE LET file == paths[Min(found)]
              old == IF MapHas(map, file) THEN MapGet(map, file)
                     ELSE [sourcePath |-> file, cuePath |-> Null, summaryPath |-> Null,
                           lastSyncSourceToCue |-> 0, lastSyncCueToSource |-> 0]
              info == IF isCueNote(derivedPath)
                      THEN [old EXCEPT !.cuePath = derivedPath]
                      ELSE [old EXCEPT !.summaryPath = derivedPath]
          IN [file |-> file, map |-> MapSet(map, file, info), saved |-> TRUE]

\* initializeOrUpdateNoteInfoMap on an empty table: one entry per Source note
RECURSIVE InitialNoteInfoMap(_, _)
InitialNoteInfoMap(v, files) ==
  IF files = <<>> THEN <<>>
  ELSE LET file == Head(files)
           rest == InitialNoteInfoMap(v, Tail(files))
       IN IF isCueNote(file) \/ isSummaryNote(file) THEN rest
          ELSE <<<<file, NewNoteInfo(v, file)>>>> \o rest

(***************************************************************************)
(* The coordinator: notes of the vault, requests, and the two passes, one  *)
(* step per await                                                          *)
(***************************************************************************)
SrcA == <<<<>>, "A", "">>
CueA == <<<<>>, "A", cueNoteSuffix>>
SrcB == <<<<>>, "B", "">>
CueB == <<<<>>, "B", cueNoteSuffix>>

\* vault.getMarkdownFiles(), in a fixed order
MarkdownFiles(v) == SelectSeq(<<SrcA, CueA, SrcB, CueB>>, LAMBDA f : f \in DOMAIN v)

NoFile == <<"<no file>">>
ContentOf(v, path) == IF path \in DOMAIN v THEN v[path] ELSE NoFile

Slots == 1..MaxPasses

IdlePass ==
  [pc |-> "idle", dir |-> "none", file |-> Null, trigger |-> "none",
   source |-> Null,        \* C->S: sourceNoteFile
   content |-> <<>>,       \* the text of the first read (sourceContent / cueContent)
   newContent |-> <<>>,    \* the text generated for the note to write
   read |-> <<>>,          \* the text read from the note to write
   mapNeedsSave |-> FALSE,
   outcome |-> "done",     \* history: "done", "notFound" or "error"
   coexist |-> FALSE,      \* history: the other note's present text has stood in the
                           \* vault together with content since content was read
   torn |-> FALSE]         \* history: newContent was computed from two texts that
                           \* never stood in the vault together

syncDebounceTime == 1500

batchSyncUpdateInterval == 50

NoTimer == [armed |-> FALSE, file |-> Null, bySync |-> FALSE,
            due |-> 0, first |-> 0, last |-> 0, files |-> {}]

\* debounce(cb, syncDebounceTime, false): the timer started by the first call of
\* a burst keeps its expiry
DebouncedWithoutReset(timer, file, bySync) ==
  [armed |-> TRUE, file |-> file,
   bySync |-> IF timer.armed THEN timer.bySync /\ bySync ELSE bySync,
   due |-> IF timer.armed THEN timer.due ELSE clock + syncDebounceTime,
   first |-> IF timer.armed THEN timer.first ELSE clock,
   last |-> clock,
   files |-> IF timer.armed THEN timer.files \cup {file} ELSE {file}]

\* debounce(cb, syncDebounceTime, true): a call (re)starts the one timer, which
\* then expires syncDebounceTime after the call, and replaces the pending
\* argument.  History: bySync, every call since the timer was started came from
\* the modify event of a write made by a pass; first and last, the times of the
\* first and of the last call since the timer was started; files, the arguments
\* of the calls since the timer was started.
Debounced(timer, file, bySync) ==
  [armed |-> TRUE, file |-> file,
   bySync |-> IF timer.armed THEN timer.bySync /\ bySync ELSE bySync,
   due |-> clock + syncDebounceTime,
   first |-> IF timer.armed THEN timer.first ELSE clock,
   last |-> clock,
   files |-> IF timer.armed THEN timer.files \cup {file} ELSE {file}]

\* handleFileModifyForAutoSync without its first line: neither syncOnSave nor
\* isSyncing is looked at
handleFileModifyUngated(file, syncing, bySync) ==
  IF ~isCueNote(file) /\ ~isSummaryNote(file)
  THEN <<Debounced(debS2C, file, bySync), debC2S>>
  ELSE IF isCueNote(file) THEN <<debS2C, Debounced(debC2S, file, bySync)>>
  ELSE <<debS2C, debC2S>>

\* handleFileModifyForAutoSync(file), run by the vault on every modify while the
\* plugin is loaded (registerEvent detaches it at unload); the result is the two
\* timers
handleFileModifyForAutoSync(file, syncing, bySync) ==
  IF ~plugin.loaded \/ ~settings.syncOnSave \/ syncing THEN <<debS2C, debC2S>>
  ELSE IF ~isCueNote(file) /\ ~isSummaryNote(file)
       THEN <<Debounced(debS2C, file, bySync), debC2S>>
  ELSE IF isCueNote(file) THEN <<debS2C, Debounced(debC2S, file, bySync)>>
  ELSE <<debS2C, debC2S>>

\* history: keep coexist of every pass that holds a first read, the vault
\* becoming v
Track(ps, v) ==
  [p \in Slots |->
     IF ps[p].pc \in {"idle", "readFirst"} THEN ps[p]
     ELSE LET first == ps[p].file
              second == IF ps[p].dir = "S2C" THEN getCueNotePath(ps[p].file)
                        ELSE ps[p].source
          IN [ps[p] EXCEPT !.coexist =
                \/ ContentOf(v, second) = ContentOf(vault, second) /\ ps[p].coexist
                \/ ContentOf(v, first) = ps[p].content]]

FreeSlots == {p \in Slots : pass[p].pc = "idle"}

Spend(b, what) == [b EXCEPT ![what] = b[what] - 1]

\* the outcomes of an awaited vault call on path: TRUE it completes, FALSE it throws
IoOutcomes(path) ==
  IF path \notin DOMAIN vault THEN {FALSE}
  ELSE IF budget.failures > 0 THEN {TRUE, FALSE} ELSE {TRUE}

AfterIo(ok, path) ==
  IF ~ok /\ path \in DOMAIN vault THEN Spend(budget, "failures") ELSE budget

SaveOutcomes == IF budget.failures > 0 THEN {TRUE, FALSE} ELSE {TRUE}

\* the head of syncSourceToCue(sourceNoteFile): the guard, the role check, the flag
CallSyncSourceToCue(sourceNoteFile, trigger) ==
  IF isSyncing
  THEN skipped' = TRUE /\ UNCHANGED <<isSyncing, pass, budget>>
  ELSE IF isCueNote(sourceNoteFile) \/ isSummaryNote(sourceNoteFile)
  THEN UNCHANGED <<isSyncing, pass, budget, skipped>>
  ELSE /\ budget.starts > 0 /\ FreeSlots # {}
       /\ isSyncing' = TRUE
       /\ pass' = [pass EXCEPT ![Min(FreeSlots)] =
                     [IdlePass EXCEPT !.pc = "readFirst", !.dir = "S2C",
                                      !.file = sourceNoteFile, !.trigger = trigger]]
       /\ budget' = Spend(budget, "starts")
       /\ UNCHANGED skipped

\* the head of syncCueToSource(cueNoteFile)
CallSyncCueToSource(cueNoteFile, trigger) ==
  IF isSyncing
  THEN skipped' = TRUE /\ UNCHANGED <<isSyncing, pass, budget>>
  ELSE IF ~isCueNote(cueNoteFile)
  THEN UNCHANGED <<isSyncing, pass, budget, skipped>>
  ELSE /\ budget.starts > 0 /\ FreeSlots # {}
       /\ isSyncing' = TRUE
       /\ pass' = [pass EXCEPT ![Min(FreeSlots)] =
                     [IdlePass EXCEPT !.pc = "readFirst", !.dir = "C2S",
                                      !.file = cueNoteFile, !.trigger = trigger]]
       /\ budget' = Spend(budget, "starts")
       /\ UNCHANGED skipped

\* manualSyncHandler(view, 'S->C') and syncSourceToCue without their role checks
ManualSourceToCueUnchecked(file) ==
  /\ file \in DOMAIN vault
  /\ IF isSyncing
     THEN skipped' = TRUE /\ UNCHANGED <<isSyncing, pass, budget>>
     ELSE /\ budget.starts > 0 /\ FreeSlots # {}
          /\ isSyncing' = TRUE
          /\ pass' = [pass EXCEPT ![Min(FreeSlots)] =
                        [IdlePass EXCEPT !.pc = "readFirst", !.dir = "S2C",
                                         !.file = file, !.trigger = "manual"]]
          /\ budget' = Spend(budget, "starts")
          /\ UNCHANGED skipped
  /\ UNCHANGED <<vault, settings, noteInfoMap, savedMap, debS2C, debC2S, now, ended,
                 tvars>>

\* manualSyncHandler(view, 'S->C'), the command run on the open note
ManualSourceToCue(file) ==
  /\ file \in DOMAIN vault
  /\ IF isCueNote(file) \/ isSummaryNote(file)
     THEN UNCHANGED <<isSyncing, pass, budget, skipped>>
     ELSE CallSyncSourceToCue(file, "manual")
  /\ UNCHANGED <<vault, settings, noteInfoMap, savedMap, debS2C, debC2S, now, ended,
                 tvars>>

\* the then-handler of the manual C->S command: it resolves the Source again for
\* its notice, and the resolution may complete the table and save it
ThenOfManualCueToSource(file) ==
  LET r == getSourceNoteFileFromDerived(noteInfoMap, vault, file)
  IN /\ noteInfoMap' = r.map
     /\ savedMap' = IF r.saved THEN r.map ELSE savedMap

\* manualSyncHandler(view, 'C->S')
ManualCueToSource(file) ==
  /\ file \in DOMAIN vault
  /\ IF ~isCueNote(file)
     THEN UNCHANGED <<isSyncing, pass, budget, skipped, noteInfoMap, savedMap>>
     ELSE /\ CallSyncCueToSource(file, "manual")
          /\ IF isSyncing THEN ThenOfManualCueToSource(file)
             ELSE UNCHANGED <<noteInfoMap, savedMap>>
  /\ UNCHANGED <<vault, settings, debS2C, debC2S, now, ended, tvars>>

\* the timer of debouncedSyncSourceToCue runs out
FireSourceToCue ==
  /\ debS2C.armed
  /\ CallSyncSourceToCue(debS2C.file, IF debS2C.bySync THEN "autoBySync" ELSE "auto")
  /\ debS2C' = NoTimer
  /\ UNCHANGED <<vault, settings, noteInfoMap, savedMap, debC2S, now, ended, tvars>>

\* the timer of debouncedSyncCueToSource runs out
FireCueToSource ==
  /\ debC2S.armed
  /\ CallSyncCueToSource(debC2S.file, IF debC2S.bySync THEN "autoBySync" ELSE "auto")
  /\ debC2S' = NoTimer
  /\ UNCHANGED <<vault, settings, noteInfoMap, savedMap, debS2C, now, ended, tvars>>

\* a throw that leaves the function at once, past its finally block
CaughtWithoutFinally(p) == [pass EXCEPT ![p] = IdlePass]

\* an awaited call of the body threw: the catch block, then the finally block
Caught(p) == [pass EXCEPT ![p].pc = "release", ![p].outcome = "error"]

\* the body returned: the finally block
ToFinally(p) == [pass EXCEPT ![p].pc = "release"]

\* step 5 with the time of the sync stored whether or not the Cue note was written
AfterUpdateCueAlwaysStamping(p, ps, v, updated) ==
  LET file == pass[p].file
      map1 == getOrCreateNoteInfo(noteInfoMap, v, file)
      info == MapGet(map1, file)
      cuePath == getCueNotePath(file)
      info2 == [info EXCEPT !.cuePath = cuePath, !.lastSyncSourceToCue = now]
  IN [pass |-> [ps EXCEPT ![p].pc = "save", ![p].mapNeedsSave = updated],
      map |-> MapSet(map1, file, info2),
      now |-> now + 1]

\* syncSourceToCue step 5, run after updateCueNoteContent returned updated, the
\* vault being v: the pass, the table and the clock after it
AfterUpdateCue(p, ps, v, updated) ==
  LET file == pass[p].file
      map1 == getOrCreateNoteInfo(noteInfoMap, v, file)
      info == MapGet(map1, file)
      cuePath == getCueNotePath(file)
      infoChanged == info.cuePath # cuePath \/ updated
      info2 == [info EXCEPT !.cuePath = cuePath,
                            !.lastSyncSourceToCue = IF updated THEN now ELSE @]
  IN [pass |-> [ps EXCEPT ![p].pc = IF infoChanged THEN "save" ELSE "release",
                          ![p].mapNeedsSave = updated],
      map |-> IF infoChanged THEN MapSet(map1, file, info2) ELSE map1,
      now |-> IF updated THEN now + 1 ELSE now]

\* syncCueToSource step 6
AfterUpdateSource(p, ps, v, updated) ==
  LET file == pass[p].source
      map1 == getOrCreateNoteInfo(noteInfoMap, v, file)
      info == MapGet(map1, file)
      infoChanged == info.cuePath # pass[p].file \/ updated
      info2 == [info EXCEPT !.cuePath = pass[p].file,
                            !.lastSyncCueToSource = IF updated THEN now ELSE @]
  IN [pass |-> [ps EXCEPT ![p].pc = IF infoChanged THEN "save" ELSE "release",
                          ![p].mapNeedsSave = updated],
      map |-> IF infoChanged THEN MapSet(map1, file, info2) ELSE map1,
      now |-> IF updated THEN now + 1 ELSE now]

\* syncSourceToCue: cachedRead(sourceNoteFile) returns; the Cue note is looked up
S2C_ReadSource(p) ==
  /\ pass[p].dir = "S2C" /\ pass[p].pc = "readFirst"
  /\ \E ok \in IoOutcomes(pass[p].file) :
       LET file == pass[p].file
           cueNotePath == getCueNotePath(file)
           map1 == getOrCreateNoteInfo(noteInfoMap, vault, file)
           info == MapGet(map1, file)
       IN /\ budget' = AfterIo(ok, file)
          /\ IF ~ok
             THEN pass' = Caught(p) /\ UNCHANGED <<isSyncing, noteInfoMap>>
             ELSE IF Exists(vault, cueNotePath)
             THEN /\ pass' = [pass EXCEPT ![p].pc = "readCue",
                                          ![p].content = vault[file],
                                          ![p].coexist = TRUE]
                  /\ UNCHANGED <<isSyncing, noteInfoMap>>
             ELSE IF info.cuePath # Null
             THEN /\ noteInfoMap' = MapSet(map1, file, [info EXCEPT !.cuePath = Null])
                  /\ pass' = [pass EXCEPT ![p].pc = "saveNotFound",
                                          ![p].outcome = "notFound"]
                  /\ UNCHANGED isSyncing
             ELSE /\ noteInfoMap' = map1
                  /\ isSyncing' = FALSE
                  /\ pass' = [pass EXCEPT ![p].pc = "sleepNotFound",
                                          ![p].outcome = "notFound"]
  /\ UNCHANGED <<vault, settings, savedMap, debS2C, debC2S, now, skipped, ended, tvars>>

\* syncSourceToCue, Cue note missing: saveData() returns, the flag is cleared
S2C_SaveNotFound(p) ==
  /\ pass[p].dir = "S2C" /\ pass[p].pc = "saveNotFound"
  /\ \E ok \in SaveOutcomes :
       IF ok
       THEN /\ savedMap' = noteInfoMap
            /\ isSyncing' = FALSE
            /\ pass' = [pass EXCEPT ![p].pc = "sleepNotFound"]
            /\ UNCHANGED budget
       ELSE /\ pass' = Caught(p)
            /\ budget' = Spend(budget, "failures")
            /\ UNCHANGED <<savedMap, isSyncing>>
  /\ UNCHANGED <<vault, settings, noteInfoMap, debS2C, debC2S, now, skipped, ended, tvars>>

\* syncSourceToCue, Cue note missing, if the branch called ensureCueNoteExists
\* instead of returning
S2C_SleepNotFoundCreating(p) ==
  /\ pass[p].dir = "S2C" /\ pass[p].pc = "sleepNotFound"
  /\ pass' = ToFinally(p)
  /\ LET cue == getCueNotePath(pass[p].file)
     IN vault' = [f \in DOMAIN vault \cup {cue} |->
                    IF f = cue THEN <<>> ELSE vault[f]]
  /\ UNCHANGED <<settings, isSyncing, noteInfoMap, savedMap, debS2C, debC2S,
                 now, budget, skipped, ended, tvars>>

\* syncSourceToCue, Cue note missing: sleep(syncFlagReleaseDelay) returns
S2C_SleepNotFound(p) ==
  /\ pass[p].dir = "S2C" /\ pass[p].pc = "sleepNotFound"
  /\ pass' = ToFinally(p)
  /\ UNCHANGED <<vault, settings, isSyncing, noteInfoMap, savedMap, debS2C, debC2S,
                 now, budget, skipped, ended, tvars>>

\* syncSourceToCue: cachedRead(cueFileInstance) returns; the final footnotes are
\* built and updateCueNoteContent starts its own read
S2C_ReadCue(p) ==
  /\ pass[p].dir = "S2C" /\ pass[p].pc = "readCue"
  /\ \E ok \in IoOutcomes(getCueNotePath(pass[p].file)) :
       /\ budget' = AfterIo(ok, getCueNotePath(pass[p].file))
       /\ pass' = IF ok THEN [pass EXCEPT ![p].pc = "readCurrent"] ELSE Caught(p)
  /\ UNCHANGED <<vault, settings, isSyncing, noteInfoMap, savedMap, debS2C, debC2S,
                 now, skipped, ended, tvars>>

\* updateCueNoteContent without its comparison: the generated text is written
\* whenever the read returned
S2C_ReadCurrentUngated(p) ==
  /\ pass[p].dir = "S2C" /\ pass[p].pc = "readCurrent"
  /\ \E ok \in IoOutcomes(getCueNotePath(pass[p].file)) :
       LET cuePath == getCueNotePath(pass[p].file)
           currentContent == vault[cuePath]
           newContent ==
             generateCueContent(currentContent, Stem(pass[p].file),
               FinalCueFootnotes(pass[p].content,
                                 settings.deleteDefinitionsOnReferenceDelete))
           after == AfterUpdateCue(p, pass, vault, FALSE)
       IN /\ budget' = AfterIo(ok, cuePath)
          /\ IF ok
             THEN /\ pass' = [pass EXCEPT ![p].pc = "modify",
                                          ![p].newContent = newContent,
                                          ![p].read = currentContent,
                                          ![p].torn = ~pass[p].coexist]
                  /\ UNCHANGED <<noteInfoMap, now>>
             ELSE /\ pass' = after.pass
                  /\ noteInfoMap' = after.map
                  /\ now' = after.now
  /\ UNCHANGED <<vault, settings, isSyncing, savedMap, debS2C, debC2S, skipped, ended, tvars>>

\* updateCueNoteContent: cachedRead(cueNoteFile) returns, the new text is generated
S2C_ReadCurrent(p) ==
  /\ pass[p].dir = "S2C" /\ pass[p].pc = "readCurrent"
  /\ \E ok \in IoOutcomes(getCueNotePath(pass[p].file)) :
       LET cuePath == getCueNotePath(pass[p].file)
           currentContent == vault[cuePath]
           newContent ==
             generateCueContent(currentContent, Stem(pass[p].file),
               FinalCueFootnotes(pass[p].content,
                                 settings.deleteDefinitionsOnReferenceDelete))
           after == AfterUpdateCue(p, pass, vault, FALSE)
       IN /\ budget' = AfterIo(ok, cuePath)
          /\ IF ok /\ currentContent # newContent
             THEN /\ pass' = [pass EXCEPT ![p].pc = "modify",
                                          ![p].newContent = newContent,
                                          ![p].read = currentContent,
                                          ![p].torn = ~pass[p].coexist]
                  /\ UNCHANGED <<noteInfoMap, now>>
             ELSE /\ pass' = IF ok THEN [after.pass EXCEPT ![p].newContent = newContent,
                                                           ![p].read = currentContent]
                             ELSE after.pass
                  /\ noteInfoMap' = after.map
                  /\ now' = after.now
  /\ UNCHANGED <<vault, settings, isSyncing, savedMap, debS2C, debC2S, skipped, ended, tvars>>

\* the write of a forward pass done with create-or-modify: a Cue note deleted
\* since it was read is written anew
S2C_ModifyRecreating(p) ==
  /\ pass[p].dir = "S2C" /\ pass[p].pc = "modify"
  /\ LET cuePath == getCueNotePath(pass[p].file)
         v == [f \in DOMAIN vault \cup {cuePath} |->
                 IF f = cuePath THEN pass[p].newContent ELSE vault[f]]
         timers == handleFileModifyForAutoSync(cuePath, isSyncing, TRUE)
         after == AfterUpdateCue(p, Track(pass, v), v, TRUE)
     IN /\ vault' = v
        /\ debS2C' = timers[1]
        /\ debC2S' = timers[2]
        /\ pass' = after.pass
        /\ noteInfoMap' = after.map
        /\ now' = after.now
  /\ UNCHANGED <<budget, settings, isSyncing, savedMap, skipped, ended, tvars>>

\* updateCueNoteContent: vault.modify(cueNoteFile, newContent) returns (the vault
\* has run the modify handlers); then step 5
S2C_Modify(p) ==
  /\ pass[p].dir = "S2C" /\ pass[p].pc = "modify"
  /\ \E ok \in IoOutcomes(getCueNotePath(pass[p].file)) :
       LET cuePath == getCueNotePath(pass[p].file)
           v == IF ok THEN [vault EXCEPT ![cuePath] = pass[p].newContent] ELSE vault
           timers == IF ok THEN handleFileModifyForAutoSync(cuePath, isSyncing, TRUE)
                     ELSE <<debS2C, debC2S>>
           after == AfterUpdateCue(p, Track(pass, v), v, ok)
       IN /\ budget' = AfterIo(ok, cuePath)
          /\ vault' = v
          /\ debS2C' = timers[1]
          /\ debC2S' = timers[2]
          /\ pass' = after.pass
          /\ noteInfoMap' = after.map
          /\ now' = after.now
  /\ UNCHANGED <<settings, isSyncing, savedMap, skipped, ended, tvars>>

\* await this.saveData() of step 5 / step 6 returns
SaveStep(p) ==
  /\ pass[p].pc = "save"
  /\ \E ok \in SaveOutcomes :
       /\ savedMap' = IF ok THEN noteInfoMap ELSE savedMap
       /\ budget' = IF ok THEN budget ELSE Spend(budget, "failures")
       /\ pass' = IF ok THEN ToFinally(p) ELSE Caught(p)
  /\ UNCHANGED <<vault, settings, isSyncing, noteInfoMap, debS2C, debC2S, now,
                 skipped, ended, tvars>>

S2C_Save(p) == pass[p].dir = "S2C" /\ SaveStep(p)

\* finally of syncSourceToCue: sleep(syncFlagReleaseDelay) returns, the flag is cleared
S2C_Release(p) ==
  /\ pass[p].dir = "S2C" /\ pass[p].pc = "release"
  /\ isSyncing' = FALSE
  /\ pass' = [pass EXCEPT ![p] = IdlePass]
  /\ ended' = pass[p].outcome
  /\ UNCHANGED <<vault, settings, noteInfoMap, savedMap, debS2C, debC2S, now, budget,
                 skipped, tvars>>

\* syncCueToSource: cachedRead(cueNoteFile) returns; the Source note is resolved
C2S_ReadCue(p) ==
  /\ pass[p].dir = "C2S" /\ pass[p].pc = "readFirst"
  /\ \E ok \in IoOutcomes(pass[p].file) :
       LET r == getSourceNoteFileFromDerived(noteInfoMap, vault, pass[p].file)
       IN /\ budget' = AfterIo(ok, pass[p].file)
          /\ IF ~ok
             THEN pass' = Caught(p) /\ UNCHANGED <<isSyncing, noteInfoMap, savedMap>>
             ELSE /\ noteInfoMap' = r.map
                  /\ savedMap' = IF r.saved THEN r.map ELSE savedMap
                  /\ IF r.file = Null
                     THEN isSyncing' = FALSE /\ pass' = [ToFinally(p) EXCEPT ![p].outcome = "notFound"]
                     ELSE /\ pass' = [pass EXCEPT ![p].pc = "readSource",
                                                  ![p].source = r.file,
                                                  ![p].content = vault[pass[p].file],
                                                  ![p].coexist = TRUE]
                          /\ UNCHANGED isSyncing
  /\ UNCHANGED <<vault, settings, debS2C, debC2S, now, skipped, ended, tvars>>

\* syncCueToSource: cachedRead(sourceNoteFile) returns, the new text is rebuilt
C2S_ReadSource(p) ==
  /\ pass[p].dir = "C2S" /\ pass[p].pc = "readSource"
  /\ \E ok \in IoOutcomes(pass[p].source) :
       LET sourceContent == vault[pass[p].source]
           newSourceContent ==
             updateSourceNoteContentRebuild(sourceContent,
               parseFootnotesSimple(pass[p].content),
               settings.deleteReferencesOnDefinitionDelete, settings.moveFootnotesToEnd)
           after == AfterUpdateSource(p, pass, vault, FALSE)
       IN /\ budget' = AfterIo(ok, pass[p].source)
          /\ IF ~ok
             THEN pass' = Caught(p) /\ UNCHANGED <<noteInfoMap, now>>
             ELSE IF newSourceContent # sourceContent
             THEN /\ pass' = [pass EXCEPT ![p].pc = "modify",
                                          ![p].newContent = newSourceContent,
                                          ![p].read = sourceContent,
                                          ![p].torn = ~pass[p].coexist]
                  /\ UNCHANGED <<noteInfoMap, now>>
             ELSE /\ pass' = [after.pass EXCEPT ![p].newContent = newSourceContent,
                                                ![p].read = sourceContent]
                  /\ noteInfoMap' = after.map
                  /\ now' = after.now
  /\ UNCHANGED <<vault, settings, isSyncing, savedMap, debS2C, debC2S, skipped, ended, tvars>>

\* syncCueToSource: vault.modify(sourceNoteFile, newSourceContent) returns; step 6
C2S_Modify(p) ==
  /\ pass[p].dir = "C2S" /\ pass[p].pc = "modify"
  /\ \E ok \in IoOutcomes(pass[p].source) :
       LET v == [vault EXCEPT ![pass[p].source] = pass[p].newContent]
           timers == handleFileModifyForAutoSync(pass[p].source, isSyncing, TRUE)
           after == AfterUpdateSource(p, Track(pass, v), v, TRUE)
       IN /\ budget' = AfterIo(ok, pass[p].source)
          /\ IF ~ok
             THEN /\ pass' = Caught(p)
                  /\ UNCHANGED <<vault, debS2C, debC2S, noteInfoMap, now>>
             ELSE /\ vault' = v
                  /\ debS2C' = timers[1]
                  /\ debC2S' = timers[2]
                  /\ pass' = after.pass
                  /\ noteInfoMap' = after.map
                  /\ now' = after.now
  /\ UNCHANGED <<settings, isSyncing, savedMap, skipped, ended, tvars>>

C2S_Save(p) == pass[p].dir = "C2S" /\ SaveStep(p)

\* finally of syncCueToSource; a manual request then runs its then-handler
C2S_Release(p) ==
  /\ pass[p].dir = "C2S" /\ pass[p].pc = "release"
  /\ isSyncing' = FALSE
  /\ pass' = [pass EXCEPT ![p] = IdlePass]
  /\ IF pass[p].trigger = "manual" THEN ThenOfManualCueToSource(pass[p].file)
     ELSE UNCHANGED <<noteInfoMap, savedMap>>
  /\ ended' = pass[p].outcome
  /\ UNCHANGED <<vault, settings, debS2C, debC2S, now, budget, skipped, tvars>>

\* the user saves an edit of a note
UserEdit(file, text) ==
  /\ budget.edits > 0
  /\ file \in DOMAIN vault /\ text # vault[file]
  /\ LET v == [vault EXCEPT ![file] = text]
         timers == handleFileModifyForAutoSync(file, isSyncing, FALSE)
     IN /\ vault' = v
        /\ debS2C' = timers[1]
        /\ debC2S' = timers[2]
        /\ pass' = Track(pass, v)
  /\ budget' = Spend(budget, "edits")
  /\ UNCHANGED <<settings, isSyncing, noteInfoMap, savedMap, now, skipped, ended, tvars>>

\* the user deletes a note (the plugin listens to no delete event)
UserDelete(file) ==
  /\ budget.deletes > 0
  /\ file \in DOMAIN vault
  /\ LET v == [f \in DOMAIN vault \ {file} |-> vault[f]]
     IN vault' = v /\ pass' = Track(pass, v)
  /\ budget' = Spend(budget, "deletes")
  /\ UNCHANGED <<settings, isSyncing, noteInfoMap, savedMap, debS2C, debC2S, now,
                 skipped, ended, tvars>>

\* the user creates a note by hand (the plugin listens to no create event)
UserCreate(file, text) ==
  /\ budget.creates > 0
  /\ file \notin DOMAIN vault
  /\ LET v == [f \in DOMAIN vault \cup {file} |-> IF f = file THEN text ELSE vault[f]]
     IN vault' = v /\ pass' = Track(pass, v)
  /\ budget' = Spend(budget, "creates")
  /\ UNCHANGED <<settings, isSyncing, noteInfoMap, savedMap, debS2C, debC2S, now,
                 skipped, ended, tvars>>

\* the notes the vault starts with, and the texts the user saves
SourceTextA == <<"t", "[", "^", "a", "]", NL, NL>> \o Def("a", <<"x">>)
SourceEditA == <<"t", "[", "^", "a", "]", NL, NL>> \o Def("a", <<"z">>)
CueTextA == LinkToSource("A") \o <<NL, NL>>
CueEditA == LinkToSource("A") \o <<NL, NL>> \o Def("a", <<"w">>)
SourceTextB == <<"u", NL>>
CueTextB == LinkToSource("B") \o <<NL, NL>>

InitialVault ==
  [f \in {SrcA, CueA, SrcB} |->
     IF f = SrcA THEN SourceTextA ELSE IF f = CueA THEN CueTextA ELSE SourceTextB]

Edits == {<<SrcA, SourceEditA>>, <<CueA, CueEditA>>}
Deletable == {SrcA, CueA}
Creatable == {<<CueB, CueTextB>>}

CoordSettings ==
  [syncOnSave : BOOLEAN,
   deleteReferencesOnDefinitionDelete : {FALSE},
   deleteDefinitionsOnReferenceDelete : {FALSE},
   moveFootnotesToEnd : {TRUE}]

\* what the environment may do in one behaviour
Budgets ==
  {[starts |-> RaceStarts, edits |-> 0, failures |-> 0, deletes |-> 0, creates |-> 0],
   [starts |-> EditStarts, edits |-> MaxEdits, failures |-> 0, deletes |-> 0,
    creates |-> 0],
   [starts |-> FaultStarts, edits |-> 0, failures |-> MaxFailures,
    deletes |-> MaxDeletes, creates |-> MaxCreates]}

IdleSeq ==
  /\ tSource = <<>> /\ tCue = <<>>
  /\ tSettings = [deleteReferencesOnDefinitionDelete |-> FALSE,
                  deleteDefinitionsOnReferenceDelete |-> FALSE,
                  moveFootnotesToEnd |-> TRUE]
  /\ tLast = [op |-> "none", prevOp |-> "none", wrote |-> FALSE, rendered |-> NoMap,
              sourceBefore |-> <<>>, cueBefore |-> <<>>]
  /\ tSteps = 0

NoFire == [dir |-> "none", file |-> Null, first |-> 0, last |-> 0, at |-> 0, n |-> 0]

\* the plugin instance after onload: nothing unloaded it, no rescan but that of
\* onload was run
NoBatch ==
  [pc |-> "off", files |-> <<>>, i |-> 0, processedCount |-> 0, skippedDerived |-> 0,
   skippedNoCue |-> 0, alone |-> FALSE, due |-> {}, ran |-> {}, dropped |-> {}]

Started == [loaded |-> TRUE, rescans |-> 0, batch |-> NoBatch, cancelled |-> {}]

\* the plugin after onload on a vault without saved data
LoadedPlugin ==
  /\ vault = InitialVault
  /\ isSyncing = FALSE
  /\ noteInfoMap = InitialNoteInfoMap(InitialVault, MarkdownFiles(InitialVault))
  /\ savedMap = InitialNoteInfoMap(InitialVault, MarkdownFiles(InitialVault))
  /\ pass = [p \in Slots |-> IdlePass]
  /\ debS2C = NoTimer
  /\ debC2S = NoTimer
  /\ now = 1
  /\ skipped = FALSE
  /\ ended = "none"
  /\ clock = 0
  /\ fired = NoFire
  /\ plugin = Started

Init ==
  /\ LoadedPlugin
  /\ settings \in CoordSettings
  /\ budget \in Budgets
  /\ IdleSeq

PassStep(p) ==
  \/ S2C_ReadSource(p) \/ S2C_SaveNotFound(p) \/ S2C_SleepNotFound(p)
  \/ S2C_ReadCue(p) \/ S2C_ReadCurrent(p) \/ S2C_Modify(p) \/ S2C_Save(p)
  \/ S2C_Release(p)
  \/ C2S_ReadCue(p) \/ C2S_ReadSource(p) \/ C2S_Modify(p) \/ C2S_Save(p)
  \/ C2S_Release(p)

Request ==
  \/ \E file \in {SrcA, CueA, SrcB, CueB} :
       ManualSourceToCue(file) \/ ManualCueToSource(file)
  \/ FireSourceToCue
  \/ FireCueToSource

User ==
  \/ \E e \in Edits : UserEdit(e[1], e[2])
  \/ \E file \in Deletable : UserDelete(file)
  \/ \E c \in Creatable : UserCreate(c[1], c[2])

Next == (\E p \in Slots : PassStep(p)) \/ Request \/ User

Spec == Init /\ [][Next]_vars

\* Every awaited call of a pass returns (it completes or it throws) and the
\* event loop then runs the continuation: weak fairness of every step of a pass.
\* The two steps that compute a note's text are enabled exactly at their pc, and
\* their weak fairness is written with that state predicate for ENABLED.
FairSpec ==
  /\ Spec
  /\ \A p \in Slots :
       /\ WF_vars(S2C_ReadSource(p)) /\ WF_vars(S2C_SaveNotFound(p))
       /\ WF_vars(S2C_SleepNotFound(p)) /\ WF_vars(S2C_ReadCue(p))
       /\ WF_vars(S2C_Modify(p)) /\ WF_vars(S2C_Save(p)) /\ WF_vars(S2C_Release(p))
       /\ WF_vars(C2S_ReadCue(p)) /\ WF_vars(C2S_Modify(p))
       /\ WF_vars(C2S_Save(p)) /\ WF_vars(C2S_Release(p))
       /\ \/ []<>~(pass[p].dir = "S2C" /\ pass[p].pc = "readCurrent")
          \/ []<><<S2C_ReadCurrent(p)>>_vars
       /\ \/ []<>~(pass[p].dir = "C2S" /\ pass[p].pc = "readSource")
          \/ []<><<C2S_ReadSource(p)>>_vars

(***************************************************************************)
(* The debounce timers with their expiry times: the clock advances in      *)
(* ticks, and a timer that has expired runs before the clock moves on      *)
(***************************************************************************)
SourceEditB == <<"v", NL>>

TimedEdits ==
  {<<SrcA, SourceEditA>>, <<SrcA, SourceTextA>>, <<SrcB, SourceEditB>>,
   <<SrcB, SourceTextB>>, <<CueA, CueEditA>>, <<CueA, CueTextA>>}

TimedInit ==
  /\ LoadedPlugin
  /\ settings \in CoordSettings
  /\ budget = [starts |-> TimedStarts, edits |-> TimedEvents, failures |-> 0,
               deletes |-> MaxDeletes, creates |-> 0]
  /\ IdleSeq

\* the timer of debouncedSyncSourceToCue expires: the debounced function calls
\* syncSourceToCue with the argument of the last call
TimedFireSourceToCue ==
  /\ debS2C.armed /\ debS2C.due <= clock
  /\ CallSyncSourceToCue(debS2C.file, IF debS2C.bySync THEN "autoBySync" ELSE "auto")
  /\ debS2C' = NoTimer
  /\ fired' = [dir |-> "S2C", file |-> debS2C.file, first |-> debS2C.first,
               last |-> debS2C.last, at |-> clock, n |-> fired.n + 1]
  /\ UNCHANGED <<vault, settings, noteInfoMap, savedMap, debC2S, now, ended, svars,
                 clock, plugin>>

\* the timer of debouncedSyncCueToSource expires
TimedFireCueToSource ==
  /\ debC2S.armed /\ debC2S.due <= clock
  /\ CallSyncCueToSource(debC2S.file, IF debC2S.bySync THEN "autoBySync" ELSE "auto")
  /\ debC2S' = NoTimer
  /\ fired' = [dir |-> "C2S", file |-> debC2S.file, first |-> debC2S.first,
               last |-> debC2S.last, at |-> clock, n |-> fired.n + 1]
  /\ UNCHANGED <<vault, settings, noteInfoMap, savedMap, debS2C, now, ended, svars,
                 clock, plugin>>

\* time passes; a timer found expired runs its callback before the clock moves
\* on (a callback runs at its expiry or, the tick stepping over it, after it)
Tick ==
  /\ clock < MaxClock
  /\ debS2C.armed => clock < debS2C.due
  /\ debC2S.armed => clock < debC2S.due
  /\ clock' = clock + TickMs
  /\ UNCHANGED <<cvars, svars, fired, plugin>>

TimedNext ==
  \/ \E p \in Slots : PassStep(p)
  \/ \E e \in TimedEdits : UserEdit(e[1], e[2])
  \/ \E file \in Deletable : UserDelete(file)
  \/ TimedFireSourceToCue
  \/ TimedFireCueToSource
  \/ Tick

TimedSpec == TimedInit /\ [][TimedNext]_vars

(***************************************************************************)
(* Shutdown: the plugin is unloaded while timers are pending and passes    *)
(* are under way; time goes on afterwards                                  *)
(***************************************************************************)
\* the pending call of a timer, as history: direction, argument, expiry
Pending(dir, timer) ==
  IF timer.armed THEN {[dir |-> dir, file |-> timer.file, due |-> timer.due]} ELSE {}

\* an unload that cancels no timer
UnloadWithoutCancel ==
  /\ plugin.loaded
  /\ plugin' = [plugin EXCEPT !.loaded = FALSE]
  /\ UNCHANGED <<cvars, svars, clock, fired>>

\* Plugin.unload: onunload cancels both debounced functions, and the event
\* handler registered with registerEvent is detached.  History: cancelled, the
\* pending calls the unload cancelled.
Unload ==
  /\ plugin.loaded
  /\ debS2C' = NoTimer
  /\ debC2S' = NoTimer
  /\ plugin' = [plugin EXCEPT !.loaded = FALSE,
                              !.cancelled = Pending("S2C", debS2C) \cup Pending("C2S", debC2S)]
  /\ UNCHANGED <<vault, settings, isSyncing, noteInfoMap, savedMap, pass, now, budget,
                 skipped, ended, svars, clock, fired>>

UnloadInit ==
  /\ LoadedPlugin
  /\ settings \in CoordSettings
  /\ budget = [starts |-> UnloadStarts, edits |-> UnloadEvents, failures |-> 0,
               deletes |-> MaxDeletes, creates |-> 0]
  /\ IdleSeq

UnloadNext ==
  \/ \E p \in Slots : PassStep(p)
  \/ \E e \in TimedEdits : UserEdit(e[1], e[2])
  \/ \E file \in Deletable : UserDelete(file)
  \/ TimedFireSourceToCue
  \/ TimedFireCueToSource
  \/ Tick
  \/ Unload

UnloadSpec == UnloadInit /\ [][UnloadNext]_vars

(***************************************************************************)
(* The coordinator in a vault that holds a Summary note as well            *)
(***************************************************************************)
SumA == <<<<>>, "A", summaryNoteSuffix>>
SummaryTextA == <<"s", NL>>
SummaryEditA == <<"s", "s", NL>>

RoleVault ==
  [f \in {SrcA, CueA, SumA, SrcB} |->
     IF f = SumA THEN SummaryTextA ELSE InitialVault[f]]

RoleEdits == Edits \cup {<<SumA, SummaryEditA>>}

RoleInit ==
  /\ vault = RoleVault
  /\ isSyncing = FALSE
  /\ noteInfoMap = InitialNoteInfoMap(RoleVault, <<SrcA, CueA, SumA, SrcB>>)
  /\ savedMap = InitialNoteInfoMap(RoleVault, <<SrcA, CueA, SumA, SrcB>>)
  /\ pass = [p \in Slots |-> IdlePass]
  /\ debS2C = NoTimer
  /\ debC2S = NoTimer
  /\ now = 1
  /\ skipped = FALSE
  /\ ended = "none"
  /\ clock = 0
  /\ fired = NoFire
  /\ plugin = Started
  /\ settings \in CoordSettings
  /\ budget = [starts |-> RoleStarts, edits |-> RoleEvents, failures |-> 0,
               deletes |-> MaxDeletes, creates |-> 0]
  /\ IdleSeq

RoleNext ==
  \/ \E p \in Slots : PassStep(p)
  \/ \E file \in {SrcA, CueA, SumA, SrcB} :
       ManualSourceToCue(file) \/ ManualCueToSource(file)
  \/ FireSourceToCue
  \/ FireCueToSource
  \/ \E e \in RoleEdits : UserEdit(e[1], e[2])
  \/ \E file \in Deletable : UserDelete(file)

RoleSpec == RoleInit /\ [][RoleNext]_vars

(***************************************************************************)
(* The coordinator in a vault where the user creates a Source note and its *)
(* Cue note after the table was built                                      *)
(***************************************************************************)
SrcC == <<<<>>, "C", "">>
CueC == <<<<>>, "C", cueNoteSuffix>>
CueTextC == LinkToSource("C") \o <<NL>>

LazyCreatable == {<<SrcC, SourceTextB>>, <<CueC, CueTextC>>}

LazyInit ==
  /\ LoadedPlugin
  /\ settings = [syncOnSave |-> FALSE, deleteReferencesOnDefinitionDelete |-> FALSE,
                 deleteDefinitionsOnReferenceDelete |-> FALSE, moveFootnotesToEnd |-> TRUE]
  /\ budget = [starts |-> LazyStarts, edits |-> 0, failures |-> 0,
               deletes |-> MaxDeletes, creates |-> LazyCreates]
  /\ IdleSeq

LazyNext ==
  \/ \E p \in Slots : PassStep(p)
  \/ \E file \in {SrcA, CueA, SrcB, SrcC, CueC} :
       ManualSourceToCue(file) \/ ManualCueToSource(file)
  \/ \E c \in LazyCreatable : UserCreate(c[1], c[2])
  \/ \E file \in Deletable : UserDelete(file)

LazySpec == LazyInit /\ [][LazyNext]_vars

(***************************************************************************)
(* The plugin over restarts: notes are created and deleted, passes stamp   *)
(* entries, and the next onload loads the saved table and rescans the vault *)
(***************************************************************************)
\* vault.getMarkdownFiles() in a vault that may hold C.md and its Cue note
AllMarkdownFiles(v) ==
  SelectSeq(<<SrcA, CueA, SrcB, CueB, SrcC, CueC>>, LAMBDA f : f \in DOMAIN v)

\* the callback of initializeOrUpdateNoteInfoMap run over the files in turn: an
\* existing entry gets the Cue and Summary paths found, a new Source an entry
RECURSIVE ScanMarkdownFiles(_, _, _)
ScanMarkdownFiles(map, v, files) ==
  IF files = <<>> THEN map
  ELSE LET file == Head(files)
           actual == NewNoteInfo(v, file)
       IN IF isCueNote(file) \/ isSummaryNote(file)
          THEN ScanMarkdownFiles(map, v, Tail(files))
          ELSE IF MapHas(map, file)
          THEN ScanMarkdownFiles(
                 MapSet(map, file, [MapGet(map, file) EXCEPT
                                      !.cuePath = actual.cuePath,
                                      !.summaryPath = actual.summaryPath]),
                 v, Tail(files))
          ELSE ScanMarkdownFiles(MapSet(map, file, actual), v, Tail(files))

\* a rescan that keeps the entries of Sources that are gone
initializeOrUpdateNoteInfoMapKeepingAll(map, v, files) ==
  ScanMarkdownFiles(map, v, files)

\* initializeOrUpdateNoteInfoMap on the table map: the keys left in
\* currentMapKeys after the scan are deleted
initializeOrUpdateNoteInfoMap(map, v, files) ==
  LET processed == {files[i] : i \in {j \in 1..Len(files) :
                                       ~(isCueNote(files[j]) \/ isSummaryNote(files[j]))}}
  IN SelectSeq(ScanMarkdownFiles(map, v, files), LAMBDA e : e[1] \in processed)

\* the application is restarted: onunload cancels the timers, onload loads the
\* saved table, rescans the vault and saves the table when the rescan changed it
Restart ==
  /\ \A p \in Slots : pass[p].pc = "idle"
  /\ plugin.rescans < MaxRescans
  /\ LET loaded == savedMap
         scanned == initializeOrUpdateNoteInfoMap(loaded, vault, AllMarkdownFiles(vault))
     IN /\ noteInfoMap' = scanned
        /\ savedMap' = scanned
  /\ isSyncing' = FALSE
  /\ debS2C' = NoTimer /\ debC2S' = NoTimer
  /\ plugin' = [plugin EXCEPT !.loaded = TRUE, !.rescans = @ + 1]
  /\ UNCHANGED <<vault, settings, pass, now, budget, skipped, ended, svars, clock, fired>>

RescanDeletable == {SrcB, CueA}

RescanInit ==
  /\ LoadedPlugin
  /\ settings = [syncOnSave |-> FALSE, deleteReferencesOnDefinitionDelete |-> FALSE,
                 deleteDefinitionsOnReferenceDelete |-> FALSE, moveFootnotesToEnd |-> TRUE]
  /\ budget = [starts |-> RescanStarts, edits |-> 0, failures |-> 0,
               deletes |-> RescanDeletes, creates |-> RescanCreates]
  /\ IdleSeq

RescanNext ==
  \/ \E p \in Slots : PassStep(p)
  \/ \E file \in {SrcA, CueA, SrcC} : ManualSourceToCue(file) \/ ManualCueToSource(file)
  \/ \E c \in LazyCreatable : UserCreate(c[1], c[2])
  \/ \E file \in RescanDeletable : UserDelete(file)
  \/ Restart

RescanSpec == RescanInit /\ [][RescanNext]_vars

(***************************************************************************)
(* 'Sync All Notes': processAllNotesSourceToCue walks the Markdown files   *)
(* and awaits one forward pass per Source whose Cue note exists, while the *)
(* user runs other syncs and deletes or creates notes                      *)
(***************************************************************************)
\* processAllNotesSourceToCue from the iteration b.i on, up to its next await:
\* the call of syncSourceToCue that sets up a pass ("await"), the sleep after a
\* progress update ("sleep"), or the saveData of its finally block ("save").
\* syncing is this.isSyncing.  History: due, the Sources whose Cue note existed
\* at their turn; ran, the Sources whose call set up a pass; dropped, the Sources
\* whose call returned at the guard.
RECURSIVE BatchLoop(_, _, _)
RECURSIVE BatchAfterCall(_, _, _)
BatchLoop(b, v, syncing) ==
  IF b.i > Len(b.files) THEN [b EXCEPT !.pc = "save"]
  ELSE LET file == b.files[b.i]
       IN IF isCueNote(file) \/ isSummaryNote(file)
          THEN BatchLoop([b EXCEPT !.i = @ + 1, !.skippedDerived = @ + 1], v, syncing)
          ELSE IF ~Exists(v, getCueNotePath(file))
          THEN BatchLoop([b EXCEPT !.i = @ + 1, !.skippedNoCue = @ + 1], v, syncing)
          ELSE IF syncing
          THEN BatchAfterCall([b EXCEPT !.due = @ \cup {file},
                                        !.dropped = @ \cup {file}], v, syncing)
          ELSE [b EXCEPT !.pc = "await", !.due = @ \cup {file}, !.ran = @ \cup {file}]

\* the rest of the iteration b.i after the awaited syncSourceToCue returned
BatchAfterCall(b, v, syncing) ==
  LET processedCount == b.processedCount + 1
      currentProcessedTotal == processedCount + b.skippedDerived + b.skippedNoCue
      next == [b EXCEPT !.i = @ + 1, !.processedCount = processedCount]
  IN IF \/ currentProcessedTotal % batchSyncUpdateInterval = 0
        \/ currentProcessedTotal = Len(b.files)
     THEN [next EXCEPT !.pc = "sleep"]
     ELSE BatchLoop(next, v, syncing)

\* the batch b goes on to its next await: a call that passed the guard sets the
\* flag and sets up its pass among the passes ps
BatchGoes(b, ps, syncing) ==
  IF b.pc = "await"
  THEN LET free == {p \in Slots : ps[p].pc = "idle"}
       IN /\ free # {}
          /\ isSyncing' = TRUE
          /\ pass' = [ps EXCEPT ![Min(free)] =
                        [IdlePass EXCEPT !.pc = "readFirst", !.dir = "S2C",
                                         !.file = b.files[b.i], !.trigger = "batch"]]
          /\ plugin' = [plugin EXCEPT !.batch = b]
  ELSE /\ isSyncing' = syncing
       /\ pass' = ps
       /\ plugin' = [plugin EXCEPT !.batch = b]

\* a sequence read from its end
Reversed(seq) == [i \in 1..Len(seq) |-> seq[Len(seq) + 1 - i]]

\* no pass but p is under way
NoPassBut(p) == \A q \in Slots \ {p} : pass[q].pc = "idle"

\* the command 'Sync All Notes' (Source -> Cue); getMarkdownFiles lists the
\* files in an order of its own.  History: alone, no sync but the passes of the
\* batch was in progress whenever the loop ran, the flag clear at its start
SyncAllNotes ==
  /\ plugin.batch.pc = "off"
  /\ \E files \in {AllMarkdownFiles(vault), Reversed(AllMarkdownFiles(vault))} :
       LET b == [plugin.batch EXCEPT
                   !.files = files, !.i = 1,
                   !.alone = ~isSyncing /\ NoPassBut(0)]
       IN BatchGoes(BatchLoop(b, vault, isSyncing), pass, isSyncing)
  /\ UNCHANGED <<vault, settings, noteInfoMap, savedMap, debS2C, debC2S, now, budget,
                 skipped, ended, svars, clock, fired>>

\* the batch goes on while the finally block of its pass has not cleared the flag
BatchReturnBeforeRelease(p) ==
  /\ pass[p].dir = "S2C" /\ pass[p].pc = "release" /\ pass[p].trigger = "batch"
  /\ BatchGoes(BatchAfterCall([plugin.batch EXCEPT !.alone = @ /\ NoPassBut(p)],
                              vault, TRUE),
               [pass EXCEPT ![p] = IdlePass], FALSE)
  /\ ended' = pass[p].outcome
  /\ UNCHANGED <<vault, settings, noteInfoMap, savedMap, debS2C, debC2S, now, budget,
                 skipped, svars, clock, fired>>

\* the pass the batch awaits returns: its finally block clears the flag, and the
\* loop goes on in the same turn of the event loop
BatchReturn(p) ==
  /\ pass[p].dir = "S2C" /\ pass[p].pc = "release" /\ pass[p].trigger = "batch"
  /\ BatchGoes(BatchAfterCall([plugin.batch EXCEPT !.alone = @ /\ NoPassBut(p)],
                              vault, FALSE),
               [pass EXCEPT ![p] = IdlePass], FALSE)
  /\ ended' = pass[p].outcome
  /\ UNCHANGED <<vault, settings, noteInfoMap, savedMap, debS2C, debC2S, now, budget,
                 skipped, svars, clock, fired>>

\* sleep(5) after a progress update returns
BatchWake ==
  /\ plugin.batch.pc = "sleep"
  /\ BatchGoes(BatchLoop([plugin.batch EXCEPT !.alone = @ /\ NoPassBut(0)],
                         vault, isSyncing), pass, isSyncing)
  /\ UNCHANGED <<vault, settings, noteInfoMap, savedMap, debS2C, debC2S, now, budget,
                 skipped, ended, svars, clock, fired>>

\* the saveData of the finally block returns
BatchSave ==
  /\ plugin.batch.pc = "save"
  /\ savedMap' = noteInfoMap
  /\ plugin' = [plugin EXCEPT !.batch.pc = "done"]
  /\ UNCHANGED <<vault, settings, isSyncing, noteInfoMap, pass, debS2C, debC2S, now,
                 budget, skipped, ended, svars, clock, fired>>

BatchVault ==
  [f \in {SrcA, CueA, SrcB, CueB} |->
     IF f = SrcA THEN SourceTextA ELSE IF f = CueA THEN CueTextA
     ELSE IF f = SrcB THEN SourceTextB ELSE CueTextB]

BatchInit ==
  /\ vault = BatchVault
  /\ isSyncing = FALSE
  /\ noteInfoMap = InitialNoteInfoMap(BatchVault, MarkdownFiles(BatchVault))
  /\ savedMap = InitialNoteInfoMap(BatchVault, MarkdownFiles(BatchVault))
  /\ pass = [p \in Slots |-> IdlePass]
  /\ debS2C = NoTimer
  /\ debC2S = NoTimer
  /\ now = 1
  /\ skipped = FALSE
  /\ ended = "none"
  /\ clock = 0
  /\ fired = NoFire
  /\ plugin = Started
  /\ settings \in CoordSettings
  /\ budget = [starts |-> BatchStarts, edits |-> BatchEvents, failures |-> 0,
               deletes |-> MaxDeletes, creates |-> 0]
  /\ IdleSeq

\* a step of a pass, but for the return of the pass the batch awaits
OtherPassStep(p) ==
  /\ ~(pass[p].trigger = "batch" /\ pass[p].pc = "release")
  /\ PassStep(p)

BatchNext ==
  \/ \E p \in Slots : OtherPassStep(p) \/ BatchReturn(p)
  \/ SyncAllNotes \/ BatchWake \/ BatchSave
  \/ \E file \in {SrcA, CueA, SrcB} : ManualSourceToCue(file) \/ ManualCueToSource(file)
  \/ FireSourceToCue \/ FireCueToSource
  \/ \E e \in Edits : UserEdit(e[1], e[2])
  \/ \E file \in {CueA, CueB} : UserDelete(file)

BatchSpec == BatchInit /\ [][BatchNext]_vars

(***************************************************************************)
(* The debounce timers under fair scheduling: time passes, an expired      *)
(* timer runs its callback, every awaited call of a pass returns           *)
(***************************************************************************)
BurstInit ==
  /\ LoadedPlugin
  /\ settings \in CoordSettings
  /\ budget = [starts |-> BurstStarts, edits |-> BurstEvents, failures |-> 0,
               deletes |-> MaxDeletes, creates |-> 0]
  /\ IdleSeq

BurstSpec ==
  /\ BurstInit /\ [][TimedNext]_vars
  /\ WF_vars(Tick)
  /\ WF_vars(TimedFireSourceToCue) /\ WF_vars(TimedFireCueToSource)
  /\ \A p \in Slots :
       /\ WF_vars(S2C_ReadSource(p)) /\ WF_vars(S2C_SaveNotFound(p))
       /\ WF_vars(S2C_SleepNotFound(p)) /\ WF_vars(S2C_ReadCue(p))
       /\ WF_vars(S2C_Modify(p)) /\ WF_vars(S2C_Save(p)) /\ WF_vars(S2C_Release(p))
       /\ WF_vars(C2S_ReadCue(p)) /\ WF_vars(C2S_Modify(p))
       /\ WF_vars(C2S_Save(p)) /\ WF_vars(C2S_Release(p))
       /\ \/ []<>~(pass[p].dir = "S2C" /\ pass[p].pc = "readCurrent")
          \/ []<><<S2C_ReadCurrent(p)>>_vars
       /\ \/ []<>~(pass[p].dir = "C2S" /\ pass[p].pc = "readSource")
          \/ []<><<C2S_ReadSource(p)>>_vars

(***************************************************************************)
(* Backward syncs in a vault with folders: Cue notes are created by hand   *)
(* after the plugin was loaded, beside their Source, below it, or alone    *)
(***************************************************************************)
SrcFX == <<<<"f">>, "X", "">>
SrcX == <<<<>>, "X", "">>
CueFX == <<<<"f">>, "X", cueNoteSuffix>>
CueFGX == <<<<"f", "g">>, "X", cueNoteSuffix>>
CueX == <<<<>>, "X", cueNoteSuffix>>
CueZ == <<<<>>, "Z", cueNoteSuffix>>

ResolveVault == [f \in {SrcFX, SrcX} |-> IF f = SrcFX THEN SourceTextA ELSE SourceTextB]

ResolveCreatable == {CueFX, CueFGX, CueX, CueZ}

ResolveInit ==
  /\ vault = ResolveVault
  /\ isSyncing = FALSE
  /\ noteInfoMap = InitialNoteInfoMap(ResolveVault, <<SrcFX, SrcX>>)
  /\ savedMap = InitialNoteInfoMap(ResolveVault, <<SrcFX, SrcX>>)
  /\ pass = [p \in Slots |-> IdlePass]
  /\ debS2C = NoTimer
  /\ debC2S = NoTimer
  /\ now = 1
  /\ skipped = FALSE
  /\ ended = "none"
  /\ clock = 0
  /\ fired = NoFire
  /\ plugin = Started
  /\ settings \in CoordSettings
  /\ budget = [starts |-> ResolveStarts, edits |-> 0, failures |-> 0, deletes |-> 0,
               creates |-> ResolveCreates]
  /\ IdleSeq

ResolveNext ==
  \/ \E p \in Slots :
       \/ C2S_ReadCue(p) \/ C2S_ReadSource(p) \/ C2S_Modify(p) \/ C2S_Save(p)
       \/ C2S_Release(p)
  \/ \E file \in ResolveCreatable : ManualCueToSource(file)
  \/ \E file \in ResolveCreatable : UserCreate(file, CueEditA)

ResolveSpec == ResolveInit /\ [][ResolveNext]_vars

(***************************************************************************)
(* A vault with folders where a Cue note is created before its Source:     *)
(* f/X-cue.md is first resolved to X.md in the root, then f/X.md is created *)
(***************************************************************************)
ShadowVault == [f \in {SrcX} |-> SourceTextB]

ShadowCreatable == {<<CueFX, CueEditA>>, <<SrcFX, SourceTextA>>}

ShadowInit ==
  /\ vault = ShadowVault
  /\ isSyncing = FALSE
  /\ noteInfoMap = InitialNoteInfoMap(ShadowVault, <<SrcX>>)
  /\ savedMap = InitialNoteInfoMap(ShadowVault, <<SrcX>>)
  /\ pass = [p \in Slots |-> IdlePass]
  /\ debS2C = NoTimer
  /\ debC2S = NoTimer
  /\ now = 1
  /\ skipped = FALSE
  /\ ended = "none"
  /\ clock = 0
  /\ fired = NoFire
  /\ plugin = Started
  /\ settings \in CoordSettings
  /\ budget = [starts |-> ShadowStarts, edits |-> 0, failures |-> 0, deletes |-> 0,
               creates |-> ShadowCreates]
  /\ IdleSeq

ShadowNext ==
  \/ \E p \in Slots : PassStep(p)
  \/ \E file \in {SrcX, SrcFX} : ManualSourceToCue(file)
  \/ ManualCueToSource(CueFX)
  \/ \E c \in ShadowCreatable : UserCreate(c[1], c[2])

ShadowSpec == ShadowInit /\ [][ShadowNext]_vars

(***************************************************************************)
(* Sequential passes: one whole pass at a time on one Source/Cue pair, no  *)
(* failure and no edit in between                                          *)
(***************************************************************************)
SeqInit ==
  /\ tSource \in SourceTexts
  /\ tCue \in CueTexts
  /\ tSettings \in SettingsChoices
  /\ tLast = [op |-> "none", prevOp |-> "none", wrote |-> FALSE, rendered |-> NoMap,
              sourceBefore |-> <<>>, cueBefore |-> <<>>]
  /\ tSteps = 0
  /\ LoadedPlugin
  /\ settings = [syncOnSave |-> FALSE, deleteReferencesOnDefinitionDelete |-> FALSE,
                 deleteDefinitionsOnReferenceDelete |-> FALSE, moveFootnotesToEnd |-> TRUE]
  /\ budget = [starts |-> 0, edits |-> 0, failures |-> 0, deletes |-> 0, creates |-> 0]

\* syncSourceToCue run to its end, the Cue note present
SeqSourceToCue ==
  /\ tSteps < MaxSteps
  /\ LET finalCueFootnotes ==
           FinalCueFootnotes(tSource, tSettings.deleteDefinitionsOnReferenceDelete)
         newContent == generateCueContent(tCue, "A", finalCueFootnotes)
     IN /\ tCue' = newContent
        /\ tLast' = [op |-> "S2C", prevOp |-> tLast.op, wrote |-> (newContent # tCue),
                     rendered |-> finalCueFootnotes,
                     sourceBefore |-> tSource, cueBefore |-> tCue]
  /\ tSteps' = tSteps + 1
  /\ UNCHANGED <<tSource, tSettings, cvars, dvars>>

\* syncCueToSource run to its end, the Source note resolved
SeqCueToSource ==
  /\ tSteps < MaxSteps
  /\ LET footnotesFromCue == parseFootnotesSimple(tCue)
         newSourceContent ==
           updateSourceNoteContentRebuild(tSource, footnotesFromCue,
             tSettings.deleteReferencesOnDefinitionDelete, tSettings.moveFootnotesToEnd)
     IN /\ tSource' = newSourceContent
        /\ tLast' = [op |-> "C2S", prevOp |-> tLast.op, wrote |-> (newSourceContent # tSource),
                     rendered |-> FinalDefinitions(parseSourceContent(tSource).definitions,
                                                   footnotesFromCue),
                     sourceBefore |-> tSource, cueBefore |-> tCue]
  /\ tSteps' = tSteps + 1
  /\ UNCHANGED <<tCue, tSettings, cvars, dvars>>

SeqNext == SeqSourceToCue \/ SeqCueToSource

SeqSpec == SeqInit /\ [][SeqNext]_vars

(***************************************************************************)
(* Sequential passes on texts with the unusual cases: a reference written  *)
(* with a space inside its brackets, a reference inside a definition's     *)
(* body, a ref made of one space, runs of blank lines, a ref defined twice *)
(***************************************************************************)
EdgeSourcePieces ==
  { <<"t", "[", "^", "a", "]", "[", "^", SP, "b", "]", NL>>,
    Def(<<"a">>, <<SP, "x", NL>>),
    Def(<<"b">>, <<SP, "y", "[", "^", "a", "]", NL>>),
    Def(<<SP>>, <<SP, "x", NL>>),
    <<"p", NL, NL, NL, "q", NL>>,
    Def(<<"a">>, <<SP, "z", NL>>) }

EdgeCuePieces ==
  { LinkToSource("A") \o <<NL, NL>>,
    Def(<<"a">>, <<SP, "x", NL>>),
    <<"h", NL, NL, NL, "k", NL>>,
    Def(<<"c">>, <<SP, "v", NL>>) }

EdgeInit ==
  /\ tSource \in TextsOf(EdgeSourcePieces, MaxEdgeSourcePieces)
  /\ tCue \in TextsOf(EdgeCuePieces, MaxEdgeCuePieces)
  /\ tSettings \in SettingsChoices
  /\ tLast = [op |-> "none", prevOp |-> "none", wrote |-> FALSE, rendered |-> NoMap,
              sourceBefore |-> <<>>, cueBefore |-> <<>>]
  /\ tSteps = 0
  /\ LoadedPlugin
  /\ settings = [syncOnSave |-> FALSE, deleteReferencesOnDefinitionDelete |-> FALSE,
                 deleteDefinitionsOnReferenceDelete |-> FALSE, moveFootnotesToEnd |-> TRUE]
  /\ budget = [starts |-> 0, edits |-> 0, failures |-> 0, deletes |-> 0, creates |-> 0]

EdgeSpec == EdgeInit /\ [][SeqNext]_vars

(***************************************************************************)
(* Sequential passes on notes with paragraphs between and after the        *)
(* definitions                                                             *)
(***************************************************************************)
FrameSourcePieces ==
  { <<"t", "[", "^", "a", "]", NL>>,
    Def(<<"a">>, <<SP, "x", NL>>),
    Def(<<"b">>, <<SP, "y", NL>>),
    <<NL, "q", NL>>,
    <<NL, NL, "q", NL>> }

FrameCuePieces ==
  { Def(<<"a">>, <<SP, "z", NL>>),
    Def(<<"b">>, <<SP, "y", NL>>) }

FrameInit ==
  /\ tSource \in TextsOf(FrameSourcePieces, MaxFrameSourcePieces)
  /\ tCue \in TextsOf(FrameCuePieces, MaxFrameCuePieces)
  /\ tSettings \in SettingsChoices
  /\ tLast = [op |-> "none", prevOp |-> "none", wrote |-> FALSE, rendered |-> NoMap,
              sourceBefore |-> <<>>, cueBefore |-> <<>>]
  /\ tSteps = 0
  /\ LoadedPlugin
  /\ settings = [syncOnSave |-> FALSE, deleteReferencesOnDefinitionDelete |-> FALSE,
                 deleteDefinitionsOnReferenceDelete |-> FALSE, moveFootnotesToEnd |-> TRUE]
  /\ budget = [starts |-> 0, edits |-> 0, failures |-> 0, deletes |-> 0, creates |-> 0]

FrameSpec == FrameInit /\ [][SeqNext]_vars

(***************************************************************************)
(* Sequential passes with moveFootnotesToEnd switched on or off, on notes  *)
(* with paragraphs between and after the definitions                       *)
(***************************************************************************)
\* the settings a load can leave (loadSettingsAndNoteInfo keeps any saved booleans)
FlagSettings ==
  [deleteReferencesOnDefinitionDelete : BOOLEAN,
   deleteDefinitionsOnReferenceDelete : BOOLEAN,
   moveFootnotesToEnd : BOOLEAN]

FlagInit ==
  /\ tSource \in TextsOf(FrameSourcePieces, MaxFlagSourcePieces)
  /\ tCue \in TextsOf(FrameCuePieces, MaxFlagCuePieces)
  /\ tSettings \in FlagSettings
  /\ tLast = [op |-> "none", prevOp |-> "none", wrote |-> FALSE, rendered |-> NoMap,
              sourceBefore |-> <<>>, cueBefore |-> <<>>]
  /\ tSteps = 0
  /\ LoadedPlugin
  /\ settings = [syncOnSave |-> FALSE, deleteReferencesOnDefinitionDelete |-> FALSE,
                 deleteDefinitionsOnReferenceDelete |-> FALSE, moveFootnotesToEnd |-> TRUE]
  /\ budget = [starts |-> 0, edits |-> 0, failures |-> 0, deletes |-> 0, creates |-> 0]

FlagSpec == FlagInit /\ [][SeqNext]_vars

(***************************************************************************)
(* Sequential passes on notes whose refs are numbers                       *)
(***************************************************************************)
SortSourcePieces ==
  { Def(<<"1", "0">>, <<SP, "x", NL>>),
    Def(<<"2">>, <<SP, "y", NL>>),
    Def(<<"1">>, <<SP, "z", NL>>),
    Def(<<"a">>, <<SP, "x", NL>>) }

SortCuePieces ==
  { Def(<<"1", "0">>, <<SP, "y", NL>>),
    Def(<<"2">>, <<SP, "y", NL>>),
    Def(<<"1">>, <<SP, "x", NL>>),
    Def(<<"b">>, <<SP, "x", NL>>) }

SortInit ==
  /\ tSource \in TextsOf(SortSourcePieces, MaxSortSourcePieces)
  /\ tCue \in TextsOf(SortCuePieces, MaxSortCuePieces)
  /\ tSettings = [deleteReferencesOnDefinitionDelete |-> FALSE,
                  deleteDefinitionsOnReferenceDelete |-> FALSE,
                  moveFootnotesToEnd |-> TRUE]
  /\ tLast = [op |-> "none", prevOp |-> "none", wrote |-> FALSE, rendered |-> NoMap,
              sourceBefore |-> <<>>, cueBefore |-> <<>>]
  /\ tSteps = 0
  /\ LoadedPlugin
  /\ settings = [syncOnSave |-> FALSE, deleteReferencesOnDefinitionDelete |-> FALSE,
                 deleteDefinitionsOnReferenceDelete |-> FALSE, moveFootnotesToEnd |-> TRUE]
  /\ budget = [starts |-> 0, edits |-> 0, failures |-> 0, deletes |-> 0, creates |-> 0]

SortSpec == SortInit /\ [][SeqNext]_vars

(***************************************************************************)
(* Claims on the sequential passes                                         *)
(***************************************************************************)
\* the AnnotationSet of a Map: ref -> body, order forgotten
AnnotationSet(m) == [k \in MapKeys(m) |-> MapGet(m, k)]

\* the AnnotationSet of a text, stated from the parsed list: one entry per ref,
\* with the body of the last definition of that ref in document order
LastWins(content) ==
  LET defs == parseSourceContent(content).definitions
      last(k) == CHOOSE i \in 1..Len(defs) :
                   defs[i].ref = k /\ \A j \in 1..Len(defs) : defs[j].ref = k => j <= i
  IN [k \in {defs[i].ref : i \in 1..Len(defs)} |-> defs[last(k)].definition]

KeysUnique(m) == \A i, j \in 1..Len(m) : m[i][1] = m[j][1] => i = j

\* C3: a backward pass that follows a backward pass, with no edit in between,
\* leaves the Source text as it is (it writes nothing).
C3_BackwardIdempotent ==
  (tLast.op = "C2S" /\ tLast.prevOp = "C2S") => ~tLast.wrote

\* C4: a forward pass that follows a forward pass, with no edit in between,
\* generates the Cue text that is already there (it writes nothing).
C4_ForwardIdempotent ==
  (tLast.op = "S2C" /\ tLast.prevOp = "S2C") => ~tLast.wrote

\* C5: with both deletion policies off, a forward pass followed by a backward
\* pass leaves the AnnotationSet of the Source as it was before the two passes
\* (the forward pass does not touch the Source, so sourceBefore is that text).
C5_NoDefinitionLoss ==
  ( /\ tLast.op = "C2S" /\ tLast.prevOp = "S2C"
    /\ ~tSettings.deleteReferencesOnDefinitionDelete
    /\ ~tSettings.deleteDefinitionsOnReferenceDelete )
  => AnnotationSet(parseFootnotesSimple(tSource)) = LastWins(tLast.sourceBefore)

\* C6: with the prune policy off, the definitions a forward pass renders into the
\* Cue are exactly the Source's definitions, the last one of each ref, whatever
\* the Cue held before; the Cue text is the rendering of that set.
C6_ForwardReplacement ==
  (tLast.op = "S2C" /\ ~tSettings.deleteDefinitionsOnReferenceDelete)
  => /\ AnnotationSet(tLast.rendered) = LastWins(tLast.sourceBefore)
     /\ KeysUnique(tLast.rendered)
     /\ tCue = generateCueContent(tLast.cueBefore, "A", tLast.rendered)

\* a forward pass with prune off that dropped a ref only the Cue had, overwrote
\* one both had and added one only the Source had, the Source defining a ref twice
C6_Witness ==
  /\ tLast.op = "S2C" /\ ~tSettings.deleteDefinitionsOnReferenceDelete
  /\ LET old == parseFootnotesSimple(tLast.cueBefore)
         defs == parseSourceContent(tLast.sourceBefore).definitions
     IN /\ \E k \in MapKeys(old) : ~MapHas(tLast.rendered, k)
        /\ \E k \in MapKeys(old) : MapHas(tLast.rendered, k)
                                    /\ MapGet(old, k) # MapGet(tLast.rendered, k)
        /\ \E k \in MapKeys(tLast.rendered) : ~MapHas(old, k)
        /\ \E i, j \in 1..Len(defs) : i < j /\ defs[i].ref = defs[j].ref
                                      /\ defs[i].definition # defs[j].definition

\* C7: the definitions a backward pass writes into the Source are exactly the
\* Cue's AnnotationSet: each ref of the Cue once, with the Cue's body, and no ref
\* that only the Source defined.
C7_BackwardMerge ==
  tLast.op = "C2S"
  => /\ AnnotationSet(tLast.rendered) = AnnotationSet(parseFootnotesSimple(tLast.cueBefore))
     /\ KeysUnique(tLast.rendered)
     /\ \A k \in DOMAIN LastWins(tLast.sourceBefore) :
          ~MapHas(parseFootnotesSimple(tLast.cueBefore), k) => ~MapHas(tLast.rendered, k)

\* a backward pass that overwrote a Source body, inserted a new ref and removed one
C7_Witness ==
  /\ tLast.op = "C2S"
  /\ LET cue == parseFootnotesSimple(tLast.cueBefore)
         old == LastWins(tLast.sourceBefore)
     IN /\ \E k \in DOMAIN old : MapHas(cue, k) /\ MapGet(cue, k) # old[k]
        /\ \E k \in MapKeys(cue) : k \notin DOMAIN old
        /\ \E k \in DOMAIN old : ~MapHas(cue, k)
        /\ tLast.wrote

(***************************************************************************)
(* Claims on the coordinator                                               *)
(***************************************************************************)
\* a pass is in its body from the moment it has set isSyncing up to its return
\* or its catch; the sleeps before the flag is released are not counted
InBody(p) ==
  pass[p].pc \in {"readFirst", "readCue", "readCurrent", "readSource", "modify",
                  "saveNotFound", "save"}

\* C1: at most one sync pass is in progress at any time: no two passes are in
\* their bodies at once.
C1_AtMostOnePass ==
  \A p, q \in Slots : (InBody(p) /\ InBody(q)) => p = q

\* C2: no pass is ever started because of the modify event of a write that a
\* sync pass made.
C2_NoPassFromOwnWrite ==
  \A p \in Slots : pass[p].trigger # "autoBySync"

\* C8: every pass that sets isSyncing clears it on every path: a pass that has
\* started returns, isSyncing is FALSE when it has returned, and isSyncing does
\* not stay TRUE for ever.
C8_GuardReleased ==
  /\ \A p \in Slots : (pass[p].pc # "idle") ~> (pass[p].pc = "idle")
  /\ isSyncing ~> ~isSyncing
  /\ [][\A p \in Slots : (pass[p].pc # "idle" /\ pass'[p].pc = "idle") => ~isSyncing']_vars

\* a pass whose body threw has returned, and the flag is down
C8_Witness ==
  /\ ended = "error"
  /\ ~isSyncing
  /\ \A p \in Slots : pass[p].pc = "idle"

\* C9: a sync request that arrives while isSyncing is TRUE is dropped: the notes,
\* the flag, the table (and its saved copy) and the passes under way are as they
\* were, and nothing is left pending that would run the request later.  An
\* automatic request arrives with the modify event of a user's edit (the timers
\* are as they were) or when a timer runs out (the timer is off afterwards).
C9_DroppedWhileSyncing ==
  [][(isSyncing /\ (Request \/ User))
     => /\ isSyncing' = isSyncing
        /\ noteInfoMap' = noteInfoMap
        /\ savedMap' = savedMap
        /\ \A p \in Slots : pass'[p].pc = pass[p].pc
        /\ debS2C'.armed => debS2C' = debS2C
        /\ debC2S'.armed => debC2S' = debC2S
        /\ Request => vault' = vault]_vars

\* C10: the text a pass writes is never computed from two texts that did not stand
\* in the vault together: pre-edit content of one note with post-edit content of
\* the other.
C10_SnapshotConsistency ==
  \A p \in Slots : ~(pass[p].torn /\ pass[p].mapNeedsSave)

\* C11: debounce.  A burst of modify events in one direction, each within
\* syncDebounceTime of the one before, all handled with syncOnSave on and
\* isSyncing false, makes the debounced function call the sync function once:
\* the call is made no sooner than syncDebounceTime after the last event of the
\* burst, it is the only thing that ends the burst, it leaves no timer behind,
\* and with isSyncing false it starts the pass on the file of the last event.
C11_Debounce ==
  /\ [](fired.dir # "none" => fired.at >= fired.last + syncDebounceTime)
  /\ [][/\ (debS2C.armed /\ ~debS2C'.armed) =>
             (fired'.n = fired.n + 1 /\ fired'.dir = "S2C")
        /\ (debC2S.armed /\ ~debC2S'.armed) =>
             (fired'.n = fired.n + 1 /\ fired'.dir = "C2S")
        /\ fired' # fired =>
             /\ fired'.n = fired.n + 1
             /\ IF fired'.dir = "S2C" THEN debS2C.armed /\ ~debS2C'.armed
                                      ELSE debC2S.armed /\ ~debC2S'.armed
             /\ ~isSyncing =>
                  \E p \in Slots :
                    /\ pass[p].pc = "idle" /\ pass'[p].pc = "readFirst"
                    /\ pass'[p].dir = fired'.dir /\ pass'[p].file = fired'.file
                    /\ \A q \in Slots \ {p} : pass'[q] = pass[q]]_vars

\* a burst of at least two events, the second within the window of the first,
\* has been answered by its one call, which started a pass
C11_Witness ==
  /\ fired.dir = "S2C" /\ fired.n = 1
  /\ fired.first < fired.last /\ fired.last < fired.first + syncDebounceTime
  /\ ~debS2C.armed
  /\ \E p \in Slots : pass[p].pc # "idle" /\ pass[p].trigger = "auto"

\* C12: a forward pass that finds no Cue note and a backward pass that resolves
\* no Source note abort cleanly: no step of such a pass, from the one that finds
\* the note missing to its return, writes or creates a note (the vault is as it
\* was), and isSyncing is FALSE when the pass has returned.
C12_NotFoundAbortsCleanly ==
  [][\A p \in Slots :
       (/\ pass'[p].pc # pass[p].pc
        /\ pass[p].outcome = "notFound" \/ pass'[p].outcome = "notFound")
       => /\ vault' = vault
          /\ pass'[p].pc = "idle" => ~isSyncing']_vars

\* a pass that found its other note missing has returned: the flag is down and
\* the vault holds the notes and texts it started with
C12_Witness ==
  /\ ended = "notFound"
  /\ ~isSyncing
  /\ \A p \in Slots : pass[p].pc = "idle"
  /\ vault = InitialVault

\* the note a pass writes: the Cue note of a forward pass, the Source note of a
\* backward pass
TargetOf(p) ==
  IF pass[p].dir = "S2C" THEN getCueNotePath(pass[p].file) ELSE pass[p].source

\* C13: content equality gates every write.  A pass is about to write only when
\* the text it generated differs from the text it read from that note, so a
\* pass that generates the text that is already there (the same definitions and
\* the same header) writes nothing; and the text of a note changes only by a
\* user's edit or by such a write, which puts the generated text there.
C13_ContentEqualityGate ==
  /\ [](\A p \in Slots : pass[p].pc = "modify" => pass[p].newContent # pass[p].read)
  /\ [][\A f \in DOMAIN vault \cap DOMAIN vault' :
          vault'[f] # vault[f] =>
            \/ budget'.edits < budget.edits
            \/ \E p \in Slots :
                 /\ pass[p].pc = "modify" /\ pass'[p].pc # "modify"
                 /\ TargetOf(p) = f
                 /\ vault'[f] = pass[p].newContent
                 /\ pass[p].newContent # pass[p].read]_vars

\* a forward pass has regenerated a Cue note that an earlier pass had written
\* and found the generated text equal to the text it read: it is about to
\* return without having written, the Cue note being as it was read
C13_Witness ==
  \E p \in Slots :
    /\ pass[p].dir = "S2C" /\ pass[p].pc = "release" /\ pass[p].outcome = "done"
    /\ pass[p].newContent = pass[p].read
    /\ pass[p].read # CueTextA
    /\ CueA \in DOMAIN vault /\ vault[CueA] = pass[p].read

(***************************************************************************)
(* Claims on the texts the passes produce                                  *)
(***************************************************************************)
\* the number of references citing ref k that parseSourceContent finds in text
RefCount(text, k) ==
  LET refs == parseSourceContent(text).references
  IN Cardinality({i \in 1..Len(refs) : refs[i].ref = k})

\* the refs cited by the references of text
RefsCited(text) ==
  LET refs == parseSourceContent(text).references
  IN {refs[i].ref : i \in 1..Len(refs)}

\* text outside its definitions
BodyOf(text) ==
  LET defs == parseSourceContent(text).definitions
  IN RemoveSpans(text, defs, Len(defs))

\* C14: orphan deletion.  After a backward pass with
\* deleteReferencesOnDefinitionDelete on, the Source text holds no reference
\* citing a ref whose definition the pass removed (a ref the Source defined and
\* the Cue does not), and as many references citing every other ref as the
\* Source held outside its definitions; with the policy off it holds as many
\* references citing every ref as before.
C14_OrphanDeletion ==
  tLast.op = "C2S" =>
    LET before == tLast.sourceBefore
        cue == parseFootnotesSimple(tLast.cueBefore)
        removed == {k \in DOMAIN LastWins(before) : ~MapHas(cue, k)}
        cited == RefsCited(BodyOf(before))
    IN IF tSettings.deleteReferencesOnDefinitionDelete
       THEN /\ \A k \in removed : RefCount(tSource, k) = 0
            /\ \A k \in cited \ removed :
                 RefCount(tSource, k) >= RefCount(BodyOf(before), k)
       ELSE \A k \in cited : RefCount(tSource, k) >= RefCount(BodyOf(before), k)

\* C15: prune policy.  With deleteDefinitionsOnReferenceDelete on, the
\* definitions a forward pass renders into the Cue are exactly the Source's
\* definitions (the last one of each ref) whose ref is cited by at least one
\* reference of the Source text; a definition with no reference is not among
\* them and the Cue text after the pass does not define its ref.
C15_PrunePolicy ==
  (tLast.op = "S2C" /\ tSettings.deleteDefinitionsOnReferenceDelete) =>
    LET all == LastWins(tLast.sourceBefore)
        cited == RefsCited(tLast.sourceBefore)
    IN /\ AnnotationSet(tLast.rendered) = [k \in DOMAIN all \cap cited |-> all[k]]
       /\ KeysUnique(tLast.rendered)
       /\ tCue = generateCueContent(tLast.cueBefore, "A", tLast.rendered)
       /\ \A k \in DOMAIN all \ cited : ~MapHas(parseFootnotesSimple(tCue), k)

\* a forward pass with the policy on that kept a cited definition and dropped
\* one without references, which the Cue had held
C15_Witness ==
  /\ tLast.op = "S2C" /\ tSettings.deleteDefinitionsOnReferenceDelete
  /\ tLast.wrote
  /\ LET all == LastWins(tLast.sourceBefore)
         cited == RefsCited(tLast.sourceBefore)
     IN /\ \E k \in DOMAIN all : k \in cited /\ MapHas(tLast.rendered, k)
        /\ \E k \in DOMAIN all :
             /\ k \notin cited /\ ~MapHas(tLast.rendered, k)
             /\ MapHas(parseFootnotesSimple(tLast.cueBefore), k)

\* C16: render idempotence.  The Cue text a forward pass has generated from the
\* old Cue text and the definitions A is a fixed point of the rendering:
\* generateCueContent applied to that text with the same A returns it unchanged.
C16_RenderIdempotent ==
  tLast.op = "S2C" => generateCueContent(tCue, "A", tLast.rendered) = tCue

\* C17: definition uniqueness.  The Map built from a text, by
\* parseFootnotesSimple and by syncSourceToCue from the parsed list, has one
\* entry per ref, and the body of a ref defined several times is the body of
\* its last definition in the text.
C17_DefinitionUniqueness ==
  \A text \in {tSource, tCue} :
    /\ KeysUnique(parseFootnotesSimple(text))
    /\ AnnotationSet(parseFootnotesSimple(text)) = LastWins(text)
    /\ KeysUnique(MapOfDefs(parseSourceContent(text).definitions))
    /\ AnnotationSet(MapOfDefs(parseSourceContent(text).definitions)) = LastWins(text)

\* a forward pass has rendered a Source that defines a ref twice with two
\* bodies: the set it rendered holds the ref once, with the second body
C17_Witness ==
  /\ tLast.op = "S2C"
  /\ LET defs == parseSourceContent(tLast.sourceBefore).definitions
     IN \E i, j \in 1..Len(defs) :
          /\ i < j /\ defs[i].ref = defs[j].ref
          /\ defs[i].definition # defs[j].definition
          /\ \A k \in 1..Len(defs) : defs[k].ref = defs[j].ref => k <= j
          /\ MapHas(tLast.rendered, defs[j].ref)
          /\ MapGet(tLast.rendered, defs[j].ref) = defs[j].definition

\* C18: a definition or reference whose ref is empty after trimming is skipped:
\* parseSourceContent returns no definition and no reference with an empty ref,
\* and the Map of parseFootnotesSimple has no empty key.
C18_EmptyRefSkipped ==
  \A text \in {tSource, tCue} :
    LET parsed == parseSourceContent(text)
    IN /\ \A i \in 1..Len(parsed.definitions) : parsed.definitions[i].ref # <<>>
       /\ \A i \in 1..Len(parsed.references) : parsed.references[i].ref # <<>>
       /\ ~MapHas(parseFootnotesSimple(text), <<>>)

\* C19: a Cue note never contains references.  After a forward pass that wrote
\* the Cue, parseSourceContent finds no reference (a [^ref] not followed by a
\* colon) in the Cue text.
C19_NoReferenceInCue ==
  (tLast.op = "S2C" /\ tLast.wrote) => parseSourceContent(tCue).references = <<>>

HasRunOfThreeNewlines(text) ==
  \E i \in 1..(Len(text) - 2) : text[i] = NL /\ text[i + 1] = NL /\ text[i + 2] = NL

EndsWithOneNewline(text) ==
  /\ Len(text) >= 1 /\ text[Len(text)] = NL
  /\ Len(text) >= 2 => text[Len(text) - 1] # NL

\* C20: newline normalization.  The Cue text generated by a forward pass and
\* the Source text rebuilt by a backward pass hold no run of three or more
\* line breaks and end with exactly one line break.
C20_NewlineNormalization ==
  /\ tLast.op = "S2C" => (~HasRunOfThreeNewlines(tCue) /\ EndsWithOneNewline(tCue))
  /\ tLast.op = "C2S" => (~HasRunOfThreeNewlines(tSource) /\ EndsWithOneNewline(tSource))

\* a forward pass has regenerated a Cue whose header held two blank lines in a
\* row: the header is kept, with one blank line in their place
C20_Witness ==
  /\ tLast.op = "S2C" /\ tLast.wrote
  /\ HasRunOfThreeNewlines(tLast.cueBefore)
  /\ \E i \in 1..(Len(tCue) - 3) :
       tCue[i] = "h" /\ tCue[i + 1] = NL /\ tCue[i + 2] = NL /\ tCue[i + 3] = "k"

AllDigits(ref) == ref # <<>> /\ \A i \in 1..Len(ref) : IsDigit(ref[i])

\* ref a is rendered before ref b: two numbers by their value, a number
\* before a word, two words by their letters
NaturalBefore(a, b) ==
  IF AllDigits(a) /\ AllDigits(b) THEN NumVal(a) < NumVal(b)
  ELSE IF AllDigits(a) THEN TRUE
  ELSE IF AllDigits(b) THEN FALSE
  ELSE localeCompare(a, b) < 0

\* C21: natural sort.  In the Cue text a forward pass generates and in the
\* Source text a backward pass rebuilds, the definitions stand in the
\* numeric-aware order of their refs: 1, 2, 10, and not 1, 10, 2.
C21_NaturalSort ==
  tLast.op # "none" =>
    LET text == IF tLast.op = "S2C" THEN tCue ELSE tSource
        defs == parseSourceContent(text).definitions
    IN \A i, j \in 1..Len(defs) : i < j => NaturalBefore(defs[i].ref, defs[j].ref)

\* a forward pass has rendered a Source that defines 10, 2 and 1 in that order:
\* the Cue defines 1, 2 and 10 in this order
C21_Witness ==
  /\ tLast.op = "S2C"
  /\ LET old == parseSourceContent(tLast.sourceBefore).definitions
         new == parseSourceContent(tCue).definitions
     IN /\ Len(old) = 3 /\ Len(new) = 3
        /\ old[1].ref = <<"1", "0">> /\ old[2].ref = <<"2">> /\ old[3].ref = <<"1">>
        /\ new[1].ref = <<"1">> /\ new[2].ref = <<"2">> /\ new[3].ref = <<"1", "0">>

\* the note named like the Cue note without its suffix, in the Cue's folder
SameFolderSource(derivedPath) == <<Folder(derivedPath), Stem(derivedPath), "">>

NoEntryStores(map, derivedPath) ==
  \A i \in 1..Len(map) :
    map[i][2].cuePath # derivedPath /\ map[i][2].summaryPath # derivedPath

\* C22: resolution fallback.  When a backward pass resolves the Source of a Cue
\* path that no entry of the table stores, and the note named like the Cue
\* without its suffix exists in the Cue's folder, the pass goes on with that note
\* as its Source, and the table then holds an entry for it whose cuePath is the
\* Cue path.
C22_ResolutionFallback ==
  [][\A p \in Slots :
       (/\ pass[p].dir = "C2S" /\ pass[p].pc = "readFirst"
        /\ pass'[p].pc # "readFirst" /\ pass'[p].outcome # "error"
        /\ NoEntryStores(noteInfoMap, pass[p].file)
        /\ Exists(vault, SameFolderSource(pass[p].file)))
       => /\ pass'[p].pc = "readSource"
          /\ pass'[p].source = SameFolderSource(pass[p].file)
          /\ MapHas(noteInfoMap', SameFolderSource(pass[p].file))
          /\ MapGet(noteInfoMap', SameFolderSource(pass[p].file)).cuePath = pass[p].file]_vars

\* a backward pass on f/X-cue.md, created after the table was built, has
\* resolved f/X.md although X.md exists in the root as well, and the entry of
\* f/X.md stores the Cue path
C22_Witness ==
  \E p \in Slots :
    /\ pass[p].dir = "C2S" /\ pass[p].pc = "readSource"
    /\ pass[p].file = CueFX /\ pass[p].source = SrcFX
    /\ Exists(vault, SrcX)
    /\ MapGet(noteInfoMap, SrcFX).cuePath = CueFX

\* C23: the guard is held through the release delay.  While a pass that has
\* set isSyncing has not returned, and no other pass is under way, isSyncing is
\* TRUE: it is cleared only when the release delay after the body has elapsed.
C23_GuardHeldThroughDelay ==
  \A p \in Slots :
    (pass[p].pc # "idle" /\ \A q \in Slots \ {p} : pass[q].pc = "idle") => isSyncing

\* the note the awaited vault call of pass p, at its present position, is made on
IoPathOf(p) ==
  IF pass[p].pc = "readFirst" THEN pass[p].file
  ELSE IF pass[p].dir = "S2C" THEN getCueNotePath(pass[p].file)
  ELSE pass[p].source

\* the awaited call that pass p returns from in this step threw
IoFailed(p) ==
  /\ pass[p].pc \in {"readFirst", "readCue", "readCurrent", "readSource", "modify", "save"}
  /\ pass'[p].pc # pass[p].pc
  /\ \/ budget'.failures < budget.failures
     \/ pass[p].pc # "save" /\ IoPathOf(p) \notin DOMAIN vault

\* C24: every I/O failure inside a sync pass (a read of either note, the write
\* of the Cue, the write of the Source, the save of the table) reaches the catch
\* block of the pass, which shows the error notice; a failed write of the Cue is
\* not taken for a Cue that is up to date.
C24_IoFailureReported ==
  [][\A p \in Slots : IoFailed(p) => pass'[p].outcome = "error"]_vars

\* the lines of text
RECURSIVE LinesOf(_)
LinesOf(t) ==
  IF t = <<>> THEN <<>>
  ELSE LET n == IF \E i \in 1..Len(t) : t[i] = NL
                THEN Min({i \in 1..Len(t) : t[i] = NL}) ELSE Len(t) + 1
       IN <<SubSeq(t, 1, n - 1)>> \o LinesOf(SubSeq(t, n + 1, Len(t)))

\* a line that opens a definition: blanks, then [^ref]:
IsDefinitionLine(l) ==
  LET s == WsRunEnd(l, 1)
  IN /\ s + 4 <= Len(l)
     /\ l[s] = "[" /\ l[s + 1] = "^"
     /\ \E e \in (s + 3)..(Len(l) - 1) :
          /\ l[e] = "]" /\ l[e + 1] = ":"
          /\ \A k \in (s + 2)..(e - 1) : l[k] # "]"

\* an indented line that holds text
IsContinuationLine(l) ==
  /\ WsRunEnd(l, 1) <= Len(l)
  /\ l[1] = TAB \/ (l[1] = SP /\ l[2] = SP)

NonWs(l) == SelectSeq(l, LAMBDA c : ~IsWs(c))

\* the characters, blanks left out, of the lines from the i-th on that are
\* neither definition lines nor indented continuation lines of a definition
RECURSIVE OutsideFrom(_, _, _)
OutsideFrom(ls, i, inDef) ==
  IF i > Len(ls) THEN <<>>
  ELSE IF IsDefinitionLine(ls[i]) THEN OutsideFrom(ls, i + 1, TRUE)
  ELSE IF NonWs(ls[i]) = <<>> THEN OutsideFrom(ls, i + 1, inDef)
  ELSE IF inDef /\ IsContinuationLine(ls[i]) THEN OutsideFrom(ls, i + 1, TRUE)
  ELSE NonWs(ls[i]) \o OutsideFrom(ls, i + 1, FALSE)

Outside(text) == OutsideFrom(LinesOf(text), 1, FALSE)

\* C25: backward sync disturbs no unrelated content.  The Source text after a
\* backward pass holds, in their order, the characters of the Source text before
\* it that lie outside the definition lines and their indented continuation
\* lines, blanks aside and less the references the pass removed; a paragraph
\* that is not indented and follows a definition after blank lines is kept.
C25_BackwardKeepsBody ==
  tLast.op = "C2S" =>
    LET before == tLast.sourceBefore
        cue == parseFootnotesSimple(tLast.cueBefore)
        removed == {k \in DOMAIN LastWins(before) : ~MapHas(cue, k)}
    IN Outside(tSource) =
         IF tSettings.deleteReferencesOnDefinitionDelete
         THEN RemoveRefsFrom(Outside(before), 1, removed)
         ELSE Outside(before)

\* the header generateCueContent keeps of a Cue text
HeaderOf(currentContent) ==
  TrimEnd(Slice(currentContent, 1, FirstElementIdx(currentContent) - 1))

\* C26: parsing a rendered Cue text returns the AnnotationSet it was rendered
\* from.  After a forward pass whose kept header holds no definition,
\* parseFootnotesSimple of the Cue text is the set the pass rendered (a set the
\* parser produced from the Source, bodies empty or of several lines included).
C26_ParseOfRender ==
  (tLast.op = "S2C" /\ parseFootnotesSimple(HeaderOf(tLast.cueBefore)) = <<>>)
  => AnnotationSet(parseFootnotesSimple(tCue)) = AnnotationSet(tLast.rendered)

\* A.md and B.md have both been modified within one debounce window, with
\* syncOnSave on and no pass under way, and two passes may still start
BothSourcesModified ==
  /\ settings.syncOnSave /\ ~isSyncing
  /\ \A p \in Slots : pass[p].pc = "idle"
  /\ debS2C.armed /\ {SrcA, SrcB} \subseteq debS2C.files
  /\ debS2C.last < debS2C.first + syncDebounceTime
  /\ debS2C.due <= MaxClock
  /\ budget.starts >= 2

ForwardPassOn(file) ==
  \E p \in Slots : pass[p].pc # "idle" /\ pass[p].dir = "S2C" /\ pass[p].file = file

\* C27: with auto-sync on and no pass running, two different Source notes
\* modified within one debounce window both get their forward pass: a pass on
\* A.md is eventually run and a pass on B.md is eventually run.
C27_BothSourcesSynced ==
  /\ BothSourcesModified ~> ForwardPassOn(SrcA)
  /\ BothSourcesModified ~> ForwardPassOn(SrcB)

\* C28: role validation.  A forward sync request for a Cue or a Summary note,
\* and a backward sync request for a note that is not a Cue, starts no pass (no
\* pass ever runs on such a note, so nothing is read or written for it) and
\* leaves the vault, isSyncing, the table and its saved copy as they are.
C28_RoleValidation ==
  /\ [](\A p \in Slots :
          /\ pass[p].dir = "S2C" => ~isCueNote(pass[p].file) /\ ~isSummaryNote(pass[p].file)
          /\ pass[p].dir = "C2S" => isCueNote(pass[p].file))
  /\ [][\A file \in {SrcA, CueA, SumA, SrcB} :
          /\ ((isCueNote(file) \/ isSummaryNote(file)) /\ ManualSourceToCue(file))
               => UNCHANGED <<vault, isSyncing, noteInfoMap, savedMap, pass>>
          /\ (~isCueNote(file) /\ ManualCueToSource(file))
               => UNCHANGED <<vault, isSyncing, noteInfoMap, savedMap, pass>>]_vars

\* nothing but the role stands between a request on the Cue or the Summary note
\* and a pass: both notes exist, no pass is under way, isSyncing is FALSE and a
\* pass may start, as one did before
C28_Witness ==
  /\ {CueA, SumA} \subseteq DOMAIN vault
  /\ ~isSyncing /\ \A p \in Slots : pass[p].pc = "idle"
  /\ budget.starts > 0
  /\ ended = "done"

\* the notes whose text this step changes: the vault runs its modify handlers
\* for them
Modified == {f \in DOMAIN vault \cap DOMAIN vault' : vault'[f] # vault[f]}

\* no pass starts in this step
NoPassStarts == \A p \in Slots : pass[p].pc = "idle" => pass'[p].pc = "idle"

\* C29: automatic triggering is gated and directed.  A modify event starts no
\* pass by itself; with syncOnSave off, or with isSyncing TRUE at the time of the
\* event, it leaves both timers as they are; otherwise the event of a Source
\* note arms the forward timer with that note and leaves the backward timer
\* alone, the event of a Cue note arms the backward timer with that note and
\* leaves the forward timer alone, and the event of a Summary note leaves both
\* timers as they are.
C29_AutoTriggerGated ==
  [][\A f \in Modified :
       /\ NoPassStarts
       /\ IF ~settings.syncOnSave \/ isSyncing
          THEN debS2C' = debS2C /\ debC2S' = debC2S
          ELSE IF isSummaryNote(f)
          THEN debS2C' = debS2C /\ debC2S' = debC2S
          ELSE IF isCueNote(f)
          THEN debC2S'.armed /\ debC2S'.file = f /\ debS2C' = debS2C
          ELSE debS2C'.armed /\ debS2C'.file = f /\ debC2S' = debC2S]_vars

\* with syncOnSave on the user has changed the Summary note and the Cue note:
\* only the backward timer is armed, with the Cue note, and no pass has started
C29_Witness ==
  /\ settings.syncOnSave
  /\ SumA \in DOMAIN vault /\ vault[SumA] = SummaryEditA
  /\ CueA \in DOMAIN vault /\ vault[CueA] = CueEditA
  /\ debC2S.armed /\ debC2S.file = CueA /\ ~debS2C.armed
  /\ budget.starts = RoleStarts

\* C30: the persisted table equals the in-memory table after every completed
\* pass.  When a pass that met no error returns, no other pass being under way,
\* the saved table is the table in memory: an entry the pass created or changed
\* (one created on a lookup miss by a pass that wrote nothing included) has been
\* saved.
C30_TablePersisted ==
  [][\A p \in Slots :
       (/\ pass[p].pc # "idle" /\ pass'[p].pc = "idle"
        /\ pass[p].outcome # "error"
        /\ \A q \in Slots \ {p} : pass[q].pc = "idle")
       => savedMap' = noteInfoMap']_vars

\* the Source note a pass is about
SourceOf(ps) == IF ps.dir = "S2C" THEN ps.file ELSE ps.source

\* the entry of source, if there is one, has a cuePath that is null or names a
\* Cue note of the vault v
PointsToExistingCue(map, v, source) ==
  MapHas(map, source) =>
    LET c == MapGet(map, source).cuePath
    IN c = Null \/ (isCueNote(c) /\ Exists(v, c))

\* a forward pass that finds the Cue note missing leaves the entry of its Source
\* with a null cuePath
ResetsWhenMissing(p) ==
  (pass[p].dir = "S2C" /\ pass[p].outcome # "notFound" /\ pass'[p].outcome = "notFound")
  => /\ MapHas(noteInfoMap', pass[p].file)
     /\ MapGet(noteInfoMap', pass[p].file).cuePath = Null

\* C31: a resolved derived pointer names an existing document.  After the full
\* scan of onload, and whenever a forward or a backward pass that met no error
\* returns, the entry of the Source the pass was about has a cuePath that is
\* null or the path of a Cue note that exists; a forward pass that finds the Cue
\* note missing resets the cuePath to null.
C31_PointerNamesExisting ==
  /\ \A s \in MapKeys(noteInfoMap) : PointsToExistingCue(noteInfoMap, vault, s)
  /\ [][\A p \in Slots :
          /\ (/\ pass[p].pc # "idle" /\ pass'[p].pc = "idle"
              /\ SourceOf(pass[p]) # Null /\ pass[p].outcome # "error")
             => PointsToExistingCue(noteInfoMap', vault', SourceOf(pass[p]))
          /\ ResetsWhenMissing(p)]_vars

\* the Source notes of the vault v
SourcesOf(v) == {f \in DOMAIN v : ~(isCueNote(f) \/ isSummaryNote(f))}

\* the table map has one entry per Source note of v and no other, and the entries
\* it shares with the table before hold the sync timestamps they held there
Reconciled(map, v, before) ==
  /\ MapKeys(map) = SourcesOf(v)
  /\ Len(map) = Cardinality(MapKeys(map))
  /\ \A s \in MapKeys(map) \cap MapKeys(before) :
       /\ MapGet(map, s).lastSyncSourceToCue = MapGet(before, s).lastSyncSourceToCue
       /\ MapGet(map, s).lastSyncCueToSource = MapGet(before, s).lastSyncCueToSource

\* C32: the full rescan reconciles the table with the vault.  When
\* initializeOrUpdateNoteInfoMap has run, the table has exactly one entry for
\* each Source note that exists, none for a Source that is gone, and the sync
\* timestamps of the entries that were in the loaded table are unchanged.
C32_RescanReconciles ==
  [][Restart => Reconciled(noteInfoMap', vault', savedMap)]_vars

\* after a restart: the entry of the deleted B.md is gone, the new C.md has an
\* entry, and the entry of A.md kept the timestamp of its forward pass
C32_Witness ==
  /\ plugin.rescans > 0
  /\ ~Exists(vault, SrcB) /\ ~MapHas(noteInfoMap, SrcB)
  /\ Exists(vault, SrcC) /\ MapHas(noteInfoMap, SrcC)
  /\ MapHas(noteInfoMap, SrcA) /\ MapGet(noteInfoMap, SrcA).lastSyncSourceToCue > 0

\* C33: for every Source note S that exists, resolving the expected Cue path of S
\* returns S, in every state of the table: getSourceNoteFileFromDerived(
\* getCueNotePath(S)) = S, so that the backward pass from the Cue note of S
\* writes the Source whose forward pass writes that Cue note.
C33_ResolveExpectedCue ==
  \A s \in SourcesOf(vault) :
    getSourceNoteFileFromDerived(noteInfoMap, vault, getCueNotePath(s)).file = s

\* the passes set up by the batch sync that have not returned
BatchPasses == {p \in Slots : pass[p].trigger = "batch" /\ pass[p].pc # "idle"}

\* C34: the batch forward sync covers every pair.  When 'Sync All Notes' runs
\* while no other sync is in progress, the call of syncSourceToCue for a Source
\* whose Cue note exists is never dropped by the guard: a pass is set up for each
\* of them, one after the other, each only after the pass before it has returned
\* and released the guard, and when the batch is over a pass has run for every
\* Source whose Cue note existed at its turn.
C34_BatchCoversEveryPair ==
  /\ [](plugin.batch.alone =>
          /\ plugin.batch.dropped = {}
          /\ Cardinality(BatchPasses) <= 1
          /\ (plugin.batch.pc \in {"sleep", "save", "done"} => BatchPasses = {})
          /\ (plugin.batch.pc = "done" => plugin.batch.ran = plugin.batch.due))
  /\ [][\A p \in Slots :
          (plugin.batch.alone /\ pass[p].trigger # "batch" /\ pass'[p].trigger = "batch")
          => /\ isSyncing'
             /\ \A q \in Slots \ {p} : pass'[q].trigger # "batch"]_vars

\* the batch is over: with no other sync in progress, it ran a pass for A.md
\* and then one for B.md
C34_Witness ==
  /\ plugin.batch.pc = "done" /\ plugin.batch.alone
  /\ plugin.batch.ran = {SrcA, SrcB}
  /\ plugin.batch.processedCount = 2

\* this step is the vault.modify of a forward pass on source that wrote its Cue note
ForwardWrite(source) ==
  \E p \in Slots :
    /\ pass[p].dir = "S2C" /\ pass[p].pc = "modify" /\ pass[p].file = source
    /\ Exists(vault', getCueNotePath(source))
    /\ vault'[getCueNotePath(source)] = pass[p].newContent
    /\ pass'[p].mapNeedsSave

\* this step is the vault.modify of a backward pass that wrote the note source
BackwardWrite(source) ==
  \E p \in Slots :
    /\ pass[p].dir = "C2S" /\ pass[p].pc = "modify" /\ pass[p].source = source
    /\ Exists(vault', source)
    /\ vault'[source] = pass[p].newContent
    /\ pass'[p].mapNeedsSave

\* C35: sync timestamps change only on an actual write.  lastSyncSourceToCue of
\* the entry of a Source changes only in the step of a forward pass on it that
\* wrote the Cue note, lastSyncCueToSource only in the step of a backward pass
\* that wrote the Source; a pass that writes nothing or fails changes neither.
C35_StampOnlyOnWrite ==
  [][\A s \in MapKeys(noteInfoMap) \cap MapKeys(noteInfoMap') :
       /\ MapGet(noteInfoMap', s).lastSyncSourceToCue
            # MapGet(noteInfoMap, s).lastSyncSourceToCue => ForwardWrite(s)
       /\ MapGet(noteInfoMap', s).lastSyncCueToSource
            # MapGet(noteInfoMap, s).lastSyncCueToSource => BackwardWrite(s)]_vars

\* a forward pass wrote the Cue note of A.md and stamped the entry, a backward
\* pass wrote A.md and stamped it later; every pass has returned
C35_Witness ==
  /\ MapHas(noteInfoMap, SrcA)
  /\ MapGet(noteInfoMap, SrcA).lastSyncSourceToCue > 0
  /\ MapGet(noteInfoMap, SrcA).lastSyncCueToSource
       > MapGet(noteInfoMap, SrcA).lastSyncSourceToCue
  /\ \A p \in Slots : pass[p].pc = "idle"

\* this step is none of the user's: no edit, no creation, no deletion
NotOfTheUser ==
  /\ budget'.edits = budget.edits
  /\ budget'.creates = budget.creates
  /\ budget'.deletes = budget.deletes

\* C36: each direction writes only its target.  A step of the plugin creates and
\* deletes no note, and the one note whose text it changes is the target of a pass
\* at its vault.modify: the Cue note of the Source a forward pass was called
\* with, which exists, or the Source note a backward pass resolved from its Cue
\* note; never the note the pass was called with.
C36_WritesOnlyTarget ==
  [][NotOfTheUser =>
       /\ DOMAIN vault' = DOMAIN vault
       /\ \A f \in DOMAIN vault :
            vault'[f] # vault[f] =>
              \E p \in Slots :
                /\ pass[p].pc = "modify"
                /\ f = TargetOf(p) /\ f # pass[p].file
                /\ vault'[f] = pass[p].newContent
                /\ pass[p].dir = "S2C" => isCueNote(f)
                /\ pass[p].dir = "C2S" => f = pass[p].source /\ ~isCueNote(f)
                /\ \A g \in DOMAIN vault \ {f} : vault'[g] = vault[g]]_vars

\* a forward pass on A.md has written A-cue.md and returned: A.md and B.md hold
\* the texts they started with and no Cue note of B.md was created
C36_Witness ==
  /\ Exists(vault, CueA) /\ vault[CueA] # CueTextA
  /\ Exists(vault, SrcA) /\ vault[SrcA] = SourceTextA
  /\ Exists(vault, SrcB) /\ vault[SrcB] = SourceTextB
  /\ ~Exists(vault, CueB)
  /\ ended = "done"
  /\ \A p \in Slots : pass[p].pc = "idle"

\* where the derived region of a Cue text begins: at its first definition, as
\* parseFootnotesSimple reads definitions, or at its marker block
RegionStart(t) ==
  Min({Len(t) + 1}
      \cup {DefMatchesFrom(t, 1)[n].start : n \in 1..Len(DefMatchesFrom(t, 1))}
      \cup {i \in 1..Len(t) : FirstCbMatchesAt(t, i)})

\* the Cue text made of the header of current (trimmed, the back-link put before
\* it when it holds none) and of the definitions of footnotes with the marker block
HeaderAndRegion(current, basename, footnotes) ==
  LET link == LinkToSource(basename)
      cut == TrimEnd(Slice(current, 1, RegionStart(current) - 1))
      header == IF Includes(cut, link) THEN cut
                ELSE IF cut # <<>> THEN link \o <<NL, NL>> \o cut ELSE link
      region == IF Len(footnotes) > 0
                THEN DefinitionsText(footnotes) \o <<NL, NL, CB, NL, FENCE, NL>>
                ELSE <<>>
  IN CollapseNewlines(TrimEnd(header \o <<NL, NL>> \o region) \o <<NL>>)

\* C37: rendering replaces the derived region and keeps the header.  The Cue text
\* a forward pass has generated is the text before the first definition or marker
\* block of the Cue text it started from (trailing whitespace trimmed, the
\* back-link put before it when absent) followed by the definitions of the
\* AnnotationSet it rendered: nothing of the old region is in it.
C37_RegionReplaced ==
  tLast.op = "S2C" => tCue = HeaderAndRegion(tLast.cueBefore, "A", tLast.rendered)

\* the definitions are one block at the end of t: t ends with the block
\* rendered from defs and a line break, and the text before the block holds
\* no definition
DefinitionsLast(t, defs) ==
  LET block == DefinitionsText(defs) \o <<NL>>
      n == Len(t) - Len(block)
  IN defs # <<>> =>
       /\ n >= 0
       /\ Slice(t, n + 1, Len(t)) = block
       /\ parseSourceContent(Slice(t, 1, n)).definitions = <<>>

C39_NoSyncAfterUnload ==
  [][/\ ~plugin'.loaded => ~debS2C'.armed /\ ~debC2S'.armed
     /\ ~plugin.loaded =>
          /\ fired' = fired
          /\ \A p \in Slots : pass[p].pc = "idle" => pass'[p].pc = "idle"]_vars

\* the plugin is unloaded, the unload cancelled a pending call, the time of
\* its expiry has passed and nothing fired
C39_Witness ==
  /\ ~plugin.loaded
  /\ \E c \in plugin.cancelled : c.due <= clock
  /\ fired = NoFire
  /\ \A p \in Slots : pass[p].pc = "idle"

====
